---- MODULE Spec2Model ----
(***************************************************************************)
(* A model of FuzzySearch.js: the scoring kernel (score_map, score_pack,   *)
(* llcs_large, pack_tokens), the token assignment solver (matchTokens)     *)
(* and the search engine object (setOptions, addSource, search).           *)
(*                                                                         *)
(* Conventions.                                                            *)
(*  - A character is its code unit (97 is "a", 32 the space).  A          *)
(*    string or token is a sequence of characters.  JavaScript indexes     *)
(*    from 0, TLA+ from 1: position p of the code is element p + 1 here.   *)
(*  - A 32-bit integer of the code is the set of the positions of its one  *)
(*    bits (a subset of 0..31), so that arithmetic is exactly arithmetic   *)
(*    modulo 2^32, as the bitwise operators of JavaScript make it.         *)
(*  - A score is an exact rational [n, d]; the code computes in IEEE       *)
(*    doubles, whose rounding error is not modelled.                       *)
(***************************************************************************)
EXTENDS Integers, Sequences, FiniteSets, TLC

VARIABLES op, args, ret, self

vars == <<op, args, ret, self>>

(***************************************************************************)
(* Bounds of the model.                                                    *)
(***************************************************************************)
NChars == 2
MaxTokLen == 3

(***************************************************************************)
(* 32-bit words.                                                           *)
(***************************************************************************)
Bits == 0 .. 31

Bit(x, i) == IF i \in x THEN 1 ELSE 0

\* the carry into bit i of x + y + c: a carry that comes in at bit 0 or is
\* generated below i, and that every bit up to i passes on
Carry(x, y, c, i) ==
    \/ c = 1 /\ \A k \in 0 .. i - 1 : k \in x \cup y
    \/ \E j \in x \cap y : /\ j < i
                            /\ \A k \in j + 1 .. i - 1 : k \in x \cup y

\* x + y + c modulo 2^32
AddCarry(x, y, c) == {i \in Bits : ((i \in x) # (i \in y)) # Carry(x, y, c, i)}

WNot(x) == Bits \ x
WAnd(x, y) == x \cap y
WOr(x, y) == x \cup y
WAdd(x, y) == AddCarry(x, y, 0)
WSub(x, y) == AddCarry(x, WNot(y), 1)
\* the shift count of <<, >> and >>> is taken modulo 32
WShl(x, s) == {i + (s % 32) : i \in x} \cap Bits
WShr(x, s) == {i - (s % 32) : i \in x} \cap Bits
WSar(x, s) == WShr(x, s) \cup (IF 31 \in x THEN {i \in Bits : i >= 32 - (s % 32)} ELSE {})
WOne == {0}
WAll == Bits

RECURSIVE Pow2(_)
Pow2(i) == IF i = 0 THEN 1 ELSE 2 * Pow2(i - 1)

RECURSIVE SumBits(_)
SumBits(x) == IF x = {} THEN 0 ELSE LET i == CHOOSE i \in x : TRUE IN Pow2(i) + SumBits(x \ {i})

\* the number a non-negative int32 below 2^30 stands for
WToNat(x) == SumBits(x)

(***************************************************************************)
(* Exact rationals.                                                        *)
(***************************************************************************)
RECURSIVE Gcd(_, _)
Gcd(x, y) == IF y = 0 THEN x ELSE Gcd(y, x % y)

Abs(x) == IF x < 0 THEN -x ELSE x

Rat(n, d) == LET g == Gcd(Abs(n), d) IN [n |-> n \div g, d |-> d \div g]
RInt(k) == [n |-> k, d |-> 1]
RZero == RInt(0)
RAdd(p, q) == Rat(p.n * q.d + q.n * p.d, p.d * q.d)
RMul(p, q) == Rat(p.n * q.n, p.d * q.d)
RLt(p, q) == p.n * q.d < q.n * p.d
RLe(p, q) == p.n * q.d <= q.n * p.d
RMax(p, q) == IF RLt(p, q) THEN q ELSE p

Min(x, y) == IF x < y THEN x ELSE y

(***************************************************************************)
(* Reference: the length of the longest common subsequence.                *)
(***************************************************************************)
RECURSIVE LCS(_, _)
LCS(a, b) ==
    IF Len(a) = 0 \/ Len(b) = 0 THEN 0
    ELSE IF a[1] = b[1] THEN 1 + LCS(Tail(a), Tail(b))
    ELSE LET x == LCS(Tail(a), b)
             y == LCS(a, Tail(b))
         IN  IF x > y THEN x ELSE y

(***************************************************************************)
(* Options (FuzzySearch.defaultOptions).                                   *)
(***************************************************************************)
INT_SIZE == 32
Infinity == 1000

defaultOptions ==
    [ minimum_match           |-> RInt(1),
      thresh_include          |-> RInt(2),
      thresh_relative_to_best |-> Rat(1, 2),
      field_good_enough       |-> RInt(20),
      bonus_match_start       |-> Rat(1, 2),
      bonus_token_order       |-> RInt(2),
      bonus_position_decay    |-> Rat(7, 10),
      score_per_token         |-> TRUE,
      score_test_fused        |-> FALSE,
      score_round             |-> Rat(1, 10),
      output_limit            |-> 0,
      output_map              |-> "root.item",
      sorter                  |-> "compareResults",
      interactive_debounce    |-> RInt(150),
      interactive_mult        |-> Rat(6, 5),
      interactive_burst       |-> 3,
      token_query_min_length  |-> 2,
      token_field_min_length  |-> 3,
      token_query_max_length  |-> 64,
      token_field_max_length  |-> 64,
      token_fused_max_length  |-> 64,
      token_min_rel_size      |-> Rat(3, 5),
      token_max_rel_size      |-> RInt(6) ]

(***************************************************************************)
(* Alphabet maps.                                                          *)
(***************************************************************************)
\* map[c] |= (1 << b++) for every character of the token, b starting at offset
bitVector(token, map, offset) ==
    [c \in DOMAIN map \cup {token[i] : i \in 1 .. Len(token)} |->
        (IF c \in DOMAIN map THEN map[c] ELSE {})
        \cup UNION {WShl(WOne, offset + i - 1) : i \in {k \in 1 .. Len(token) : token[k] = c}}]

\* the positions of every character, in increasing order, then Infinity
posVector(pattern) ==
    [c \in {pattern[i] : i \in 1 .. Len(pattern)} |->
        LET P == {i - 1 : i \in {k \in 1 .. Len(pattern) : pattern[k] = c}}
            RECURSIVE Sorted(_)
            Sorted(S) == IF S = {} THEN <<Infinity>>
                         ELSE LET lo == CHOOSE x \in S : \A y \in S : x <= y
                              IN  <<lo>> \o Sorted(S \ {lo})
        IN  Sorted(P)]

\* if (len > INT_SIZE): alphabet and mapAlphabet record the positions in arrays
use_posVector(len) == len > INT_SIZE

alphabet(token) ==
    IF use_posVector(Len(token)) THEN posVector(token) ELSE bitVector(token, <<>>, 0)

(***************************************************************************)
(* llcs_large: LLCS by lists of blocks [start, end) of consecutive         *)
(* increase positions.  A block is <<start, end>>.  The code shares block  *)
(* objects between the last and the current line; a shared block is never  *)
(* read again through the last line after it was changed, so lines are     *)
(* modelled by value.                                                      *)
(***************************************************************************)
\* while (match_pos < last_end) match_pos = match_list[++match_index]
RECURSIVE next_match(_, _, _)
next_match(match_list, match_index, last_end) ==
    IF match_list[match_index] < last_end
    THEN next_match(match_list, match_index + 1, last_end)
    ELSE match_index

\* the loop over the blocks of the last line, for one character of b
RECURSIVE llcs_line(_, _, _, _)
llcs_line(last_line, match_list, block_index, st) ==
    IF block_index > Len(last_line) THEN st
    ELSE LET last_end == st.block_end
             block == last_line[block_index]
             block_start == block[1]
             block_end == block[2]
             mi == next_match(match_list, st.match_index, last_end)
             match_pos == match_list[mi]
             base == [st EXCEPT !.match_index = mi, !.match_pos = match_pos,
                                !.block_start = block_start, !.block_end = block_end]
         IN  IF block_start <= match_pos
             THEN llcs_line(last_line, match_list, block_index + 1,
                            [base EXCEPT !.current_line = Append(@, block)])
             ELSE LET reg == IF match_pos = last_end
                             THEN [st.current_line EXCEPT ![Len(st.current_line)][2] = @ + 1]
                             ELSE Append(st.current_line, <<match_pos, match_pos + 1>>)
                      \* block_size is NaN for the sentinel: neither === 1 nor > 1
                      rest == IF block_start # Infinity /\ block_end - block_start > 1
                              THEN Append(reg, <<block_start + 1, block_end>>)
                              ELSE reg
                  IN  llcs_line(last_line, match_list, block_index + 1,
                                [base EXCEPT !.current_line = rest])

RECURSIVE llcs_rows(_, _, _, _, _)
llcs_rows(b, aMap, j, last_line, lcs_len) ==
    IF j > Len(b) THEN lcs_len
    ELSE IF b[j] \notin DOMAIN aMap THEN llcs_rows(b, aMap, j + 1, last_line, lcs_len)
    ELSE LET match_list == aMap[b[j]]
             st == llcs_line(last_line, match_list, 1,
                             [current_line |-> <<>>, match_index |-> 1,
                              match_pos |-> match_list[1],
                              block_start |-> 0, block_end |-> -1])
         IN  IF st.block_start > st.match_pos
             THEN llcs_rows(b, aMap, j + 1,
                            Append(st.current_line, last_line[Len(last_line)]), lcs_len + 1)
             ELSE llcs_rows(b, aMap, j + 1, st.current_line, lcs_len)

llcs_large(a, b, aMap, prefix) ==
    llcs_rows(b, aMap, prefix + 1,
              IF prefix # 0 THEN <<(<<0, prefix>>), (<<Infinity, Infinity>>)>>
                            ELSE <<(<<Infinity, Infinity>>)>>,
              prefix)

(***************************************************************************)
(* score_map: the score of one query token a against one field token b.    *)
(***************************************************************************)
\* a loop that runs to the end of the shorter string
prefix_loop_mut(a, b, prefix, k) == k

\* while ((a[prefix] === b[prefix]) && (++prefix < k)) {}
RECURSIVE prefix_loop(_, _, _, _)
prefix_loop(a, b, prefix, k) ==
    IF prefix + 1 <= Len(a) /\ prefix + 1 <= Len(b) /\ a[prefix + 1] = b[prefix + 1]
    THEN IF prefix + 1 < k THEN prefix_loop(a, b, prefix + 1, k) ELSE prefix + 1
    ELSE prefix

\* S = (S + U) | (S - U) for every character of b from position j on; once
\* S is 0 it stays 0
RECURSIVE bit_sweep(_, _, _, _)
bit_sweep(b, aMap, j, S) ==
    IF j > Len(b) \/ S = {} THEN S
    ELSE IF b[j] \in DOMAIN aMap
         THEN LET U == WAnd(S, aMap[b[j]])
              IN  bit_sweep(b, aMap, j + 1, WOr(WAdd(S, U), WSub(S, U)))
         ELSE bit_sweep(b, aMap, j + 1, S)

\* the 32-bit population count of score_map
popcount32(S0) ==
    LET M5 == {i \in Bits : i % 2 = 0}
        M3 == {i \in Bits : i % 4 < 2}
        MF == {i \in Bits : i % 8 < 4}
        S1 == WSub(S0, WAnd(WSar(S0, 1), M5))
        S2 == WAdd(WAnd(S1, M3), WAnd(WSar(S1, 2), M3))
        S3 == WAnd(WAdd(S2, WSar(S2, 4)), MF)
        \* S3 * 0x01010101, modulo 2^32
        S4 == WAdd(WAdd(S3, WShl(S3, 8)), WAdd(WShl(S3, 16), WShl(S3, 24)))
    IN  WToNat(WSar(S4, 24))

\* if (m > INT_SIZE): score_map leaves the work to llcs_large
use_llcs_large(m) == m > INT_SIZE

\* the return of score_map that a pair reaches: "zero" (gated), "prefix"
\* (shortest string consumed), "large", "bits"
score_map_path(a, b, options) ==
    LET m == Len(a)
        n == Len(b)
        k == Min(m, n)
    IN  IF k = 0 \/ RLt(RInt(n), RMul(options.token_min_rel_size, RInt(m)))
                 \/ RLt(RMul(options.token_max_rel_size, RInt(m)), RInt(n))
        THEN "zero"
        ELSE IF (IF a = b THEN k ELSE prefix_loop(a, b, 0, k)) = k THEN "prefix"
        ELSE IF use_llcs_large(m) THEN "large"
        ELSE "bits"

\* the part of score_map that derives prefix and lcs_len
score_map_lcs(a, b, aMap, options) ==
    LET m == Len(a)
        k == Min(m, Len(b))
        prefix == IF a = b THEN k ELSE prefix_loop(a, b, 0, k)
        path == score_map_path(a, b, options)
    IN  IF path = "zero"
        THEN [path |-> "zero", prefix |-> 0, lcs_len |-> 0]
        ELSE IF path = "prefix"
        THEN [path |-> "prefix", prefix |-> prefix, lcs_len |-> prefix]
        ELSE IF path = "large"
        THEN [path |-> "large", prefix |-> prefix,
              lcs_len |-> llcs_large(a, b, aMap, prefix)]
        ELSE LET mask == WSub(WShl(WOne, m), WOne)
                 S == bit_sweep(b, aMap, prefix + 1, mask)
                 mask2 == WAnd(mask, WNot(WSub(WShl(WOne, prefix), WOne)))
             IN  [path |-> "bits", prefix |-> prefix,
                  lcs_len |-> popcount32(WAnd(WNot(S), mask2)) + prefix]

\* sz_score * lcs_len * lcs_len + bonus_prefix * prefix
score_value(m, n, lcs_len, prefix, bonus_prefix) ==
    RAdd(RMul(Rat(m + n, 2 * m * n), RInt(lcs_len * lcs_len)),
         RMul(bonus_prefix, RInt(prefix)))

score_map(a, b, aMap, options) ==
    LET r == score_map_lcs(a, b, aMap, options)
    IN  IF r.path = "zero" THEN RZero
        ELSE score_value(Len(a), Len(b), r.lcs_len, r.prefix, options.bonus_match_start)

(***************************************************************************)
(* pack_tokens and score_pack: several short query tokens in one word.     *)
(***************************************************************************)
PackInfo(group_tokens, group_map, gate) ==
    [tokens |-> group_tokens, map |-> group_map, gate |-> gate]

\* if (l >= INT_SIZE): the token gets a group of its own and a position vector
large_token(l) == l >= INT_SIZE

\* a test that lets a group fill one bit more
group_full_mut(l, offset) == l + offset > INT_SIZE

\* else if (l + offset >= INT_SIZE): the token does not fit in the group
group_full(l, offset) == l + offset >= INT_SIZE

\* a break that does not give the token back
step_back_mut(token_index) == token_index

\* token_index--: the token that did not fit starts the next group
step_back(token_index) == token_index - 1

\* the inner loop of pack_tokens: fill one group
RECURSIVE pack_group(_, _)
pack_group(tokens, st) ==
    LET token_index == st.token_index + 1
    IN  IF ~(token_index < Len(tokens)) THEN [st EXCEPT !.token_index = token_index]
        ELSE LET token == tokens[token_index + 1]
                 l == Len(token)
             IN  IF large_token(l)
                 THEN [st EXCEPT !.token_index = token_index,
                                 !.large = <<PackInfo(<<token>>, posVector(token), WAll)>>]
                 ELSE IF group_full(l, st.offset)
                 THEN [st EXCEPT !.token_index = step_back(token_index)]
                 ELSE pack_group(tokens,
                        [st EXCEPT !.token_index = token_index,
                                   !.group_tokens = Append(@, token),
                                   !.group_map = bitVector(token, @, st.offset),
                                   !.gate = WOr(@, WShl(WSub(WShl(WOne, l - 1), WOne), st.offset)),
                                   !.offset = @ + l])

\* the outer loop of pack_tokens: one group (and one large token) per turn
RECURSIVE pack_groups(_, _, _)
pack_groups(tokens, token_index, groups) ==
    IF ~(token_index < Len(tokens)) THEN groups
    ELSE LET st == pack_group(tokens,
                     [token_index |-> token_index, group_tokens |-> <<>>,
                      group_map |-> <<>>, offset |-> 0, gate |-> {}, large |-> <<>>])
             g1 == IF Len(st.group_tokens) > 0
                   THEN Append(groups, PackInfo(st.group_tokens, st.group_map, st.gate))
                   ELSE groups
         IN  pack_groups(tokens, st.token_index, g1 \o st.large)

pack_tokens(tokens) == pack_groups(tokens, -1, <<>>)

\* S = ((S & ZM) + (U & ZM)) | (S - U) for every character of the field token
RECURSIVE pack_sweep(_, _, _, _, _)
pack_sweep(field_token, aMap, ZM, j, S) ==
    IF j > Len(field_token) THEN S
    ELSE IF field_token[j] \in DOMAIN aMap
         THEN LET U == WAnd(S, aMap[field_token[j]])
              IN  pack_sweep(field_token, aMap, ZM, j + 1,
                             WOr(WAdd(WAnd(S, ZM), WAnd(U, ZM)), WSub(S, U)))
         ELSE pack_sweep(field_token, aMap, ZM, j + 1, S)

\* the per-lane loop of score_pack; the loop "while (Sm) { Sm &= Sm - 1; lcs_len++ }"
\* adds the number of one bits of Sm
RECURSIVE pack_lanes(_, _, _, _, _, _)
pack_lanes(packed_tokens, field_token, S, k, offset, options) ==
    IF k > Len(packed_tokens) THEN <<>>
    ELSE LET query_tok == packed_tokens[k]
             m == Len(query_tok)
             n == Len(field_token)
             p == Min(m, n)
             prefix == IF query_tok = field_token THEN m
                       ELSE prefix_loop(query_tok, field_token, 0, p)
             Sm == WShr(WAnd(WShr(S, offset), WSub(WShl(WOne, m), WOne)), prefix)
             lcs_len == IF query_tok = field_token THEN m ELSE prefix + Cardinality(Sm)
             sc == IF RLt(RInt(n), RMul(options.token_min_rel_size, RInt(m)))
                      \/ RLt(RMul(options.token_max_rel_size, RInt(m)), RInt(n))
                   THEN RZero
                   ELSE score_value(m, n, lcs_len, prefix, options.bonus_match_start)
         IN  <<sc>> \o pack_lanes(packed_tokens, field_token, S, k + 1, offset + m, options)

score_pack(packinfo, field_token, options) ==
    LET S == pack_sweep(field_token, packinfo.map, packinfo.gate, 1, WAll)
    IN  pack_lanes(packinfo.tokens, field_token, WNot(S), 1, 0, options)

(***************************************************************************)
(* The scoring kernel as a state machine: every action applies one of the  *)
(* functions to inputs drawn from the bounded sets below and records the   *)
(* call in op, args and ret.                                               *)
(***************************************************************************)
\* the letters a, b, ...
Chars == 97 .. 96 + NChars
Tokens == UNION {[1 .. n -> Chars] : n \in 1 .. MaxTokLen}
\* the tokens that are packed: those of one or two characters
PackTokens == {t \in Tokens : Len(t) <= 2}

\* "surgery" and "gsurvey"
Surgery == <<115, 117, 114, 103, 101, 114, 121>>
Gsurvey == <<103, 115, 117, 114, 118, 101, 121>>

\* the engine object a FuzzySearch() call without options constructs
NewEngine ==
    [ options |-> defaultOptions, source |-> [id |-> 0, items |-> <<>>],
      keys |-> [id |-> 0, items |-> <<>>], dirty |-> FALSE,
      index |-> <<>>, results |-> <<>> ]

prefix_of(a, b) ==
    IF a = b THEN Min(Len(a), Len(b))
    ELSE IF Len(a) = 0 \/ Len(b) = 0 THEN 0
    ELSE prefix_loop(a, b, 0, Min(Len(a), Len(b)))

\* the calls of the kernel that the model makes over the tokens T: one per
\* initial state
KernelCalls(T) ==
    {[fn |-> "score_map", a |-> a, b |-> b] :
        a \in T \cup {Surgery}, b \in T \cup {Gsurvey}}
    \cup {[fn |-> "llcs_large", a |-> a, b |-> b] :
        a \in T \cup {Surgery}, b \in T \cup {Gsurvey}}
    \cup {[fn |-> "score_pack", tokens |-> <<t1, t2>>, b |-> b] :
        t1 \in PackTokens, t2 \in PackTokens, b \in T}

KernelInit ==
    /\ op = "call"
    /\ args \in KernelCalls(Tokens)
    /\ ret = <<>>
    /\ self = NewEngine

CallScoreMap ==
    /\ op = "call"
    /\ args.fn = "score_map"
    /\ op' = "score_map"
    /\ ret' = [score |-> score_map(args.a, args.b, alphabet(args.a), self.options),
               lcs |-> score_map_lcs(args.a, args.b, alphabet(args.a), self.options)]
    /\ UNCHANGED <<args, self>>

CallLlcsLarge ==
    /\ op = "call"
    /\ args.fn = "llcs_large"
    /\ op' = "llcs_large"
    /\ ret' = llcs_large(args.a, args.b, posVector(args.a), prefix_of(args.a, args.b))
    /\ UNCHANGED <<args, self>>

CallScorePack ==
    /\ op = "call"
    /\ args.fn = "score_pack"
    /\ op' = "score_pack"
    /\ ret' = LET groups == pack_tokens(args.tokens)
              IN  [groups |-> groups,
                   scores |-> [g \in 1 .. Len(groups) |->
                                 score_pack(groups[g], args.b, self.options)]]
    /\ UNCHANGED <<args, self>>

KernelNext == CallScoreMap \/ CallLlcsLarge \/ CallScorePack

KernelSpec == KernelInit /\ [][KernelNext]_vars

(***************************************************************************)
(* Claims about the scoring kernel.                                        *)
(***************************************************************************)
\* C1: for every packed group of two or more tokens and every field token,
\* score_pack returns for each lane the score that score_map returns for
\* that token alone, with the token's own alphabet map and the same options.
C1_PackEqualsMap ==
    op = "score_pack" =>
        \A g \in 1 .. Len(ret.groups) :
            Len(ret.groups[g].tokens) >= 2 =>
                \A i \in 1 .. Len(ret.groups[g].tokens) :
                    LET t == ret.groups[g].tokens[i]
                    IN  ret.scores[g][i] = score_map(t, args.b, alphabet(t), self.options)

\* C2: for a query token of at most INT_SIZE characters and a field token
\* that passes the rel-size gate, the lcs_len that score_map derives is the
\* length of the longest common subsequence of the two tokens.
C2_ShortLcsIsLcs ==
    (op = "score_map" /\ Len(args.a) <= INT_SIZE /\ ret.lcs.path # "zero")
        => ret.lcs.lcs_len = LCS(args.a, args.b)

\* C3: llcs_large(a, b, posVector(a), p), p the length of the common prefix,
\* returns the length of the longest common subsequence of a and b.
C3_LargeLcsIsLcs ==
    op = "llcs_large" => ret = LCS(args.a, args.b)

\* C4: whenever both apply to a pair, the bit-parallel computation of
\* score_map and llcs_large give the same LLCS, and both give 5 for
\* "surgery" against "gsurvey".
C4_ShortEqualsLarge ==
    /\ op = "llcs_large" =>
          LET r == score_map_lcs(args.a, args.b, alphabet(args.a), self.options)
          IN  r.path = "bits" => r.lcs_len = ret
    /\ score_map_lcs(Surgery, Gsurvey, alphabet(Surgery), self.options).lcs_len = 5
    /\ llcs_large(Surgery, Gsurvey, posVector(Surgery), 0) = 5

\* score_map for the pairs of tokens of the same length
SameLengthCalls(T) ==
    {c \in {[fn |-> "score_map", a |-> a, b |-> b] :
                a \in T \cup {Surgery}, b \in T \cup {Gsurvey}} : Len(c.a) = Len(c.b)}

SameLengthInit ==
    /\ op = "call"
    /\ args \in SameLengthCalls(Tokens)
    /\ ret = <<>>
    /\ self = NewEngine

SameLengthNext == CallScoreMap

SameLengthSpec == SameLengthInit /\ [][SameLengthNext]_vars

\* C23: for every non-empty token a and every token b of the same length
\* that differs from a, score_map(a, a) is greater than score_map(a, b)
\* under the default options.
C23_EqualScoresHighest ==
    (op = "score_map" /\ Len(args.a) = Len(args.b) /\ args.a # args.b)
        => RLt(ret.score, score_map(args.a, args.a, alphabet(args.a), self.options))

\* "aba" against "aab": a common prefix, a longer common subsequence
C23_Witness ==
    /\ op = "score_map"
    /\ args.a = <<97, 98, 97>>
    /\ args.b = <<97, 97, 98>>
    /\ ret.lcs.path = "bits"
    /\ ret.lcs.prefix = 1
    /\ RLt(RZero, ret.score)
    /\ RLt(ret.score, score_map(args.a, args.a, alphabet(args.a), self.options))

(***************************************************************************)
(* src/FuzzySearch.js: the variant of the library that holds matchTokens.  *)
(* Its score_map takes the prefix bonus alone, has no rel-size gate, tells *)
(* the kind of alphabet map by a type tag and shifts the map by the prefix.*)
(***************************************************************************)
BVMAXSIZE == 31

defaults_js ==
    [ minimum_match |-> RInt(1), thresh_include |-> RInt(2),
      thresh_relative_to_best |-> Rat(1, 2), field_good_enough |-> RInt(20),
      bonus_match_start |-> Rat(1, 2), bonus_token_order |-> RInt(2),
      bonus_position_decay |-> Rat(7, 10), score_round |-> Rat(1, 10),
      output_match_detail |-> TRUE, cache_fields |-> TRUE,
      max_search_tokens |-> 10, max_candidates |-> 100,
      highlight_prefix |-> FALSE, highlight_bridge_gap |-> 2,
      highlight_tk_max_size |-> 64 ]

bitVector_js(token) ==
    IF Len(token) > BVMAXSIZE
    THEN [type |-> "posvector", map |-> posVector(token)]
    ELSE [type |-> "bitvector", map |-> bitVector(token, <<>>, 0)]

\* M = aMap[b[j]] >> prefixlen; U = S & M; S = (S + U) | (S - U)
RECURSIVE bit_sweep_js(_, _, _, _, _)
bit_sweep_js(b, map, prefixlen, j, S) ==
    IF j > Len(b) THEN S
    ELSE LET M == IF b[j] \in DOMAIN map THEN WSar(map[b[j]], prefixlen) ELSE {}
             U == WAnd(S, M)
         IN  bit_sweep_js(b, map, prefixlen, j + 1, WOr(WAdd(S, U), WSub(S, U)))

score_map_js(a, b, aMap, bonus_prefix) ==
    LET m == Len(a)
        n == Len(b)
        k == Min(m, n)
        prefixlen == IF k = 0 THEN 0 ELSE prefix_of(a, b)
    IN  IF k = 0 THEN RZero
        ELSE IF prefixlen = k THEN score_value(m, n, prefixlen, prefixlen, bonus_prefix)
        ELSE IF aMap.type = "posvector"
        THEN score_value(m, n, llcs_large(a, b, aMap.map, prefixlen), prefixlen, bonus_prefix)
        ELSE LET mask == WSub(WShl(WOne, m - prefixlen), WOne)
                 S == bit_sweep_js(b, aMap.map, prefixlen, prefixlen + 1, mask)
                 \* while (S) { S &= S - 1; lcs_len++ }
                 lcs_len == Cardinality(WAnd(WNot(S), mask)) + prefixlen
             IN  score_value(m, n, lcs_len, prefixlen, bonus_prefix)

(***************************************************************************)
(* matchTokens: the best one-to-one pairing of query and field tokens.     *)
(* An element of an array of numbers is Num(v), or Undef where the array   *)
(* has a hole, or NaN.  A row of the score grid C is Row(r), or NoRow      *)
(* where C has a hole.  A read of a property of undefined raises a         *)
(* TypeError: fault.                                                       *)
(***************************************************************************)
Num(v) == [kind |-> "num", v |-> v]
Undef == [kind |-> "undefined", v |-> RZero]
NaN == [kind |-> "NaN", v |-> RZero]
IsNum(x) == x.kind = "num"
Row(r) == [kind |-> "row", row |-> r]
NoRow == [kind |-> "undefined", row |-> <<>>]

\* a solver that forgets which columns are taken
token_used_mut(used_mask, j) == FALSE

\* if (used_mask & bit) continue
token_used(used_mask, j) == j \in used_mask

\* a solver that ignores the thresholds
too_small_mut(score, include_thresh) == FALSE

\* if (score < include_thresh) continue; a comparison with undefined or NaN is false
too_small(score, include_thresh) ==
    IsNum(score) /\ IsNum(include_thresh) /\ RLt(score.v, include_thresh.v)

\* the memo table cache_tree[depth][used_mask] holds the value returned for
\* (depth, used_mask), which depends on nothing else: a read of the table is
\* modelled as a call.  The result is [fault, score, index].
RECURSIVE buildScoreTree(_, _, _, _)
RECURSIVE scan_columns(_, _, _, _, _, _)

scan_columns(C, used_mask, depth, score_thresholds, j, best) ==
    LET row == C[depth + 1].row
        jlen == Min(Len(row), 32)
        has_childs == depth < Len(C) - 1
        include_thresh == score_thresholds[depth + 1]
    IN  IF best.fault \/ j >= jlen THEN best
        ELSE IF token_used(used_mask, j)
        THEN scan_columns(C, used_mask, depth, score_thresholds, j + 1, best)
        ELSE IF too_small(row[j + 1], include_thresh)
        THEN scan_columns(C, used_mask, depth, score_thresholds, j + 1, best)
        ELSE LET child == IF has_childs
                          THEN buildScoreTree(C, used_mask \cup {j}, depth + 1, score_thresholds)
                          ELSE [fault |-> FALSE, score |-> RZero, index |-> -1]
             IN  IF child.fault THEN child
                 ELSE IF IsNum(row[j + 1]) /\ RLt(best.score, RAdd(row[j + 1].v, child.score))
                 THEN scan_columns(C, used_mask, depth, score_thresholds, j + 1,
                                   [fault |-> FALSE,
                                    score |-> RAdd(row[j + 1].v, child.score),
                                    index |-> j])
                 ELSE scan_columns(C, used_mask, depth, score_thresholds, j + 1, best)

buildScoreTree(C, used_mask, depth, score_thresholds) ==
    IF C[depth + 1].kind # "row" THEN [fault |-> TRUE, score |-> RZero, index |-> -1]
    ELSE LET has_childs == depth < Len(C) - 1
             best == scan_columns(C, used_mask, depth, score_thresholds, 0,
                                  [fault |-> FALSE, score |-> RZero, index |-> -1])
             \* the move of "do not match this token against anything"
             skip == buildScoreTree(C, used_mask, depth + 1, score_thresholds)
         IN  IF best.fault \/ ~has_childs THEN best
             ELSE IF skip.fault THEN skip
             ELSE IF RLt(best.score, skip.score)
             THEN [fault |-> FALSE, score |-> skip.score, index |-> -1]
             ELSE best

\* the loop of _matchScoreGrid that reads the chosen columns back
RECURSIVE trace_back(_, _, _, _, _)
trace_back(C, score_thresholds, i, used, match) ==
    IF i >= Len(C) THEN match
    ELSE LET item == buildScoreTree(C, used, i, score_thresholds)
             j == item.index
             grown == IF i + 1 <= Len(match) THEN match
                      ELSE match \o [x \in 1 .. (i + 1 - Len(match)) |-> -1]
         IN  trace_back(C, score_thresholds, i + 1,
                        IF j > -1 THEN used \cup {j} ELSE used,
                        [grown EXCEPT ![i + 1] = j])

matchScoreGrid(C, match, thresholds) ==
    LET top == buildScoreTree(C, {}, 0, thresholds)
    IN  IF Len(C) = 0 \/ top.fault THEN [fault |-> TRUE, score |-> RZero, match |-> match]
        ELSE [fault |-> FALSE, score |-> top.score,
              match |-> trace_back(C, thresholds, 0, {}, match)]

flipmatch(match, newlen) ==
    [j \in 1 .. newlen |->
        LET I == {i \in 1 .. Len(match) : match[i] = j - 1}
        IN  IF I = {} THEN -1 ELSE (CHOOSE i \in I : \A k \in I : k <= i) - 1]

\* the length of an array is its last index + 1: trailing holes do not count
RECURSIVE trim_holes(_)
trim_holes(s) ==
    IF Len(s) > 0 /\ s[Len(s)].kind = "undefined"
    THEN trim_holes(SubSeq(s, 1, Len(s) - 1))
    ELSE s

\* the body of the loop over the field tokens once the pair's score v is
\* known; st = [row, rowmax, imax, jmax, matchcount]
match_cell(st, v, i, j, options) ==
    [row |-> Append(st.row, Num(v)),
     matchcount |-> IF RLt(options.minimum_match, v) THEN st.matchcount + 1 ELSE st.matchcount,
     rowmax |-> IF RLt(st.rowmax, v) THEN v ELSE st.rowmax,
     imax |-> IF RLt(st.rowmax, v) THEN i ELSE st.imax,
     jmax |-> IF RLt(st.rowmax, v) THEN j ELSE st.jmax]

\* the loop over the field tokens for the query token of row i
RECURSIVE match_row(_, _, _, _, _, _)
match_row(a_tok, b_tokens, options, i, j, st) ==
    IF j >= Len(b_tokens) THEN st
    ELSE match_row(a_tok, b_tokens, options, i, j + 1,
             IF Len(b_tokens[j + 1]) = 0
             THEN [st EXCEPT !.row = Append(@, Undef)]
             ELSE match_cell(st,
                             score_map_js(a_tok, b_tokens[j + 1], bitVector_js(a_tok),
                                          options.bonus_match_start),
                             i, j, options))

\* the end of the body of the loop over the query tokens: r is the state the
\* inner loop left; st = [C, thresholds, rowmax, imax, jmax, matchcount]
match_row_done(st, r) ==
    [C |-> Append(st.C, Row(trim_holes(r.row))),
     thresholds |-> Append(st.thresholds, Num(r.rowmax)),
     rowmax |-> r.rowmax, imax |-> r.imax, jmax |-> r.jmax,
     matchcount |-> r.matchcount]

\* the loop over the query tokens
RECURSIVE match_rows(_, _, _, _, _)
match_rows(a_tokens, b_tokens, options, i, st) ==
    IF i >= Len(a_tokens) THEN st
    ELSE match_rows(a_tokens, b_tokens, options, i + 1,
             IF Len(a_tokens[i + 1]) = 0
             THEN [st EXCEPT !.rowmax = options.minimum_match,
                             !.C = Append(@, NoRow),
                             !.thresholds = Append(@, Undef)]
             ELSE match_row_done(st,
                      match_row(a_tokens[i + 1], b_tokens, options, i, 0,
                                [row |-> <<>>, rowmax |-> options.minimum_match,
                                 imax |-> st.imax, jmax |-> st.jmax,
                                 matchcount |-> st.matchcount])))

\* the constant of the test "m - n > 10" that flips the problem
FLIP_GAP == 10

\* the thresholds of the rows: thresholds[i] = max(thresh * rowmax, minimum)
row_thresholds(st, m, options) ==
    [i \in 1 .. m |->
        IF IsNum(st.thresholds[i])
        THEN Num(RMax(RMul(options.thresh_relative_to_best, st.thresholds[i].v),
                      options.minimum_match))
        ELSE NaN]

\* the return of the general case, grid being what _matchScoreGrid gave
match_grid_done(grid, flip, n) ==
    IF grid.fault THEN grid
    ELSE [fault |-> FALSE, score |-> grid.score,
          match |-> IF flip THEN flipmatch(grid.match, n) ELSE grid.match]

\* what follows the two loops: the shortcuts and the general case
match_done(st, m, n, flip, options) ==
    IF st.matchcount = 0
    THEN [fault |-> FALSE, score |-> RZero, match |-> [i \in 1 .. m |-> -1]]
    ELSE IF st.matchcount = 1
    THEN [fault |-> FALSE, score |-> st.rowmax,
          match |-> IF flip
                    THEN flipmatch([[i \in 1 .. m |-> -1] EXCEPT ![st.imax + 1] = st.jmax], n)
                    ELSE [[i \in 1 .. m |-> -1] EXCEPT ![st.imax + 1] = st.jmax]]
    ELSE match_grid_done(
             matchScoreGrid(trim_holes(st.C), [i \in 1 .. m |-> -1],
                            row_thresholds(st, m, options)),
             flip, n)

\* match is the array of the caller, empty on entry
matchTokens(a_tokens0, b_tokens0, options) ==
    LET flip == Len(a_tokens0) > 1 /\ Len(b_tokens0) > 1
                /\ Len(a_tokens0) - Len(b_tokens0) > FLIP_GAP
        a_tokens == IF flip THEN b_tokens0 ELSE a_tokens0
        b_tokens == IF flip THEN a_tokens0 ELSE b_tokens0
    IN  match_done(match_rows(a_tokens, b_tokens, options, 0,
                              [C |-> <<>>, thresholds |-> <<>>,
                               rowmax |-> options.minimum_match,
                               imax |-> -1, jmax |-> -1, matchcount |-> 0]),
                   Len(a_tokens), Len(b_tokens), flip, options)

(***************************************************************************)
(* The assignment solver as a state machine.                               *)
(***************************************************************************)
MaxRows == 2
MaxCols == 2
FlipRows == 13

\* the tokens of the lists: "", "a", "ab", "ba"
MatchTokSet == {<<>>, <<97>>, <<97, 98>>, <<98, 97>>}
ATokenLists == UNION {[1 .. k -> MatchTokSet] : k \in 0 .. MaxRows}
BTokenLists == UNION {[1 .. k -> MatchTokSet] : k \in 0 .. MaxCols}
\* lists of query tokens long enough for the flipped problem
FlipLists == {[i \in 1 .. FlipRows |-> IF i = 1 THEN t ELSE <<97>>] : t \in MatchTokSet}
\* the score matrices and the thresholds of their rows
CellValues == {1, 2}
ThreshValues == {1, 2}
Grids ==
    UNION {[1 .. r -> [1 .. c -> CellValues]] : r \in 1 .. MaxRows, c \in 1 .. MaxCols}
    \* and the two by two matrices that have zero entries too
    \cup [1 .. 2 -> [1 .. 2 -> CellValues \cup {0}]]

pair_score(a_tok, b_tok) ==
    score_map_js(a_tok, b_tok, bitVector_js(a_tok), defaults_js.bonus_match_start)

MatchCalls ==
    {[fn |-> "matchTokens", a_tokens |-> x, b_tokens |-> y] :
        x \in ATokenLists, y \in BTokenLists}
    \cup {[fn |-> "matchTokens", a_tokens |-> x, b_tokens |-> y] :
        x \in FlipLists, y \in [1 .. 2 -> MatchTokSet]}
    \cup UNION {{[fn |-> "_matchScoreGrid", C |-> G, thresholds |-> t] :
                    t \in [1 .. Len(G) -> ThreshValues]} : G \in Grids}

MatchInit ==
    /\ op = "call"
    /\ args \in MatchCalls
    /\ ret = <<>>
    /\ self = NewEngine

CallMatchTokens ==
    /\ op = "call"
    /\ args.fn = "matchTokens"
    /\ op' = "matchTokens"
    /\ ret' = matchTokens(args.a_tokens, args.b_tokens, defaults_js)
    /\ UNCHANGED <<args, self>>

CallMatchScoreGrid ==
    /\ op = "call"
    /\ args.fn = "_matchScoreGrid"
    /\ op' = "_matchScoreGrid"
    /\ ret' = matchScoreGrid(
                 [i \in 1 .. Len(args.C) |->
                     Row([j \in 1 .. Len(args.C[i]) |-> Num(RInt(args.C[i][j]))])],
                 <<>>,
                 [i \in 1 .. Len(args.C) |-> Num(RInt(args.thresholds[i]))])
    /\ UNCHANGED <<args, self>>

MatchNext == CallMatchTokens \/ CallMatchScoreGrid

MatchSpec == MatchInit /\ [][MatchNext]_vars

\* the one-to-one partial assignments of the rows of G to its columns
\* (0: the row is left alone) that use only pairs with G[i][j] >= t[i]
Assignments(G, t) ==
    {f \in [1 .. Len(G) -> 0 .. Len(G[1])] :
        /\ \A i \in 1 .. Len(G) : f[i] # 0 => G[i][f[i]] >= t[i]
        /\ \A i, k \in 1 .. Len(G) : (i # k /\ f[i] # 0) => f[i] # f[k]}

RECURSIVE AssignmentSum(_, _, _)
AssignmentSum(G, f, i) ==
    IF i > Len(G) THEN 0
    ELSE (IF f[i] = 0 THEN 0 ELSE G[i][f[i]]) + AssignmentSum(G, f, i + 1)

\* C5: for a non-negative score matrix and per-row thresholds, the score
\* _matchScoreGrid returns is the maximum, over the one-to-one partial
\* assignments that use only pairs at or above the row's threshold, of the
\* sum of the chosen entries.
C5_GridScoreIsOptimal ==
    op = "_matchScoreGrid" =>
        /\ ~ret.fault
        /\ \E f \in Assignments(args.C, args.thresholds) :
              ret.score = RInt(AssignmentSum(args.C, f, 1))
        /\ \A f \in Assignments(args.C, args.thresholds) :
              RLe(RInt(AssignmentSum(args.C, f, 1)), ret.score)

\* the solver had to leave the greedy choice of the first row to reach the optimum
C5_Witness ==
    /\ op = "_matchScoreGrid"
    /\ args.C = <<(<<2, 2>>), (<<2, 1>>)>>
    /\ args.thresholds = <<2, 2>>
    /\ ret.score = RInt(4)
    /\ ret.match = <<1, 0>>

\* C6: the match vector of matchTokens is one-to-one: no two rows are
\* mapped to the same column (entries -1 excepted), on every path.
C6_MatchOneToOne ==
    (op = "matchTokens" /\ ~ret.fault) =>
        \A i, k \in 1 .. Len(ret.match) :
            (i # k /\ ret.match[i] # -1) => ret.match[i] # ret.match[k]

\* a flipped problem in which two query tokens are matched
C6_Witness ==
    /\ op = "matchTokens"
    /\ ~ret.fault
    /\ Len(args.a_tokens) - Len(args.b_tokens) > FLIP_GAP
    /\ Cardinality({i \in 1 .. Len(ret.match) : ret.match[i] # -1}) = 2

RECURSIVE MatchSum(_, _, _, _)
MatchSum(a_tokens, b_tokens, match, i) ==
    IF i > Len(match) THEN RZero
    ELSE RAdd(IF match[i] = -1 THEN RZero
              ELSE pair_score(a_tokens[i], b_tokens[match[i] + 1]),
              MatchSum(a_tokens, b_tokens, match, i + 1))

\* C7: the number matchTokens returns is the sum, over the rows i with
\* match[i] # -1, of the pair score of (a_tokens[i], b_tokens[match[i]]),
\* on every return path.
C7_ScoreIsSumOfMatch ==
    (op = "matchTokens" /\ ~ret.fault) =>
        ret.score = MatchSum(args.a_tokens, args.b_tokens, ret.match, 1)

\* C15: matchTokens is total: for all token lists, those with empty tokens
\* at any position included, it returns a score and a match vector with one
\* entry per query token and raises no fault.
C15_MatchTokensTotal ==
    op = "matchTokens" =>
        /\ ~ret.fault
        /\ Len(ret.match) = Len(args.a_tokens)

(***************************************************************************)
(* Strings: normalize, split, join, filterSize.                            *)
(***************************************************************************)
\* toLowerCase, for the letters A-Z and the accented capitals of Latin-1
toLowerCase(c) ==
    IF (c >= 65 /\ c <= 90) \/ (c >= 192 /\ c <= 222 /\ c # 215) THEN c + 32 ELSE c

\* the characters \s matches (of those below 256)
isSpace(c) == c \in {9, 10, 11, 12, 13, 32, 160}

\* diacriticsMap: the accented letters "from" and their base letters "to"
diacriticsMap ==
    (227 :> 97) @@ (224 :> 97) @@ (225 :> 97) @@ (228 :> 97) @@ (226 :> 97) @@ (230 :> 97)
    @@ (7869 :> 101) @@ (232 :> 101) @@ (233 :> 101) @@ (235 :> 101) @@ (234 :> 101)
    @@ (236 :> 105) @@ (237 :> 105) @@ (239 :> 105) @@ (238 :> 105)
    @@ (245 :> 111) @@ (242 :> 111) @@ (243 :> 111) @@ (246 :> 111) @@ (244 :> 111)
    @@ (339 :> 111) @@ (249 :> 117) @@ (250 :> 117) @@ (252 :> 117) @@ (251 :> 117)
    @@ (241 :> 110) @@ (231 :> 99)

\* replace(/\s+/g, " "): every run of white space becomes one space
RECURSIVE collapse_spaces(_, _)
collapse_spaces(str, in_run) ==
    IF Len(str) = 0 THEN <<>>
    ELSE IF isSpace(str[1])
         THEN (IF in_run THEN <<>> ELSE <<32>>) \o collapse_spaces(Tail(str), TRUE)
         ELSE <<str[1]>> \o collapse_spaces(Tail(str), FALSE)

normalize(str) ==
    LET lower == [i \in 1 .. Len(str) |-> toLowerCase(str[i])]
        spaced == collapse_spaces(lower, FALSE)
    IN  [i \in 1 .. Len(spaced) |->
            IF spaced[i] > 126 /\ spaced[i] \in DOMAIN diacriticsMap
            THEN diacriticsMap[spaced[i]] ELSE spaced[i]]

\* str.split(" "): the pieces between the spaces, the empty ones included
RECURSIVE split(_, _)
split(str, piece) ==
    IF Len(str) = 0 THEN <<piece>>
    ELSE IF str[1] = 32 THEN <<piece>> \o split(Tail(str), <<>>)
    ELSE split(Tail(str), Append(piece, str[1]))

\* array.join(" ")
RECURSIVE join(_)
join(array) ==
    IF Len(array) = 0 THEN <<>>
    ELSE IF Len(array) = 1 THEN array[1]
    ELSE array[1] \o <<32>> \o join(Tail(array))

\* str.substr(0, n) and str.substring(0, n)
substr0(str, n) == IF Len(str) <= n THEN str ELSE SubSeq(str, 1, n)

RECURSIVE filterSize(_, _, _)
filterSize(array, minSize, maxSize) ==
    IF Len(array) = 0 THEN <<>>
    ELSE LET str == array[1]
         IN  (IF Len(str) >= minSize
              THEN <<(IF Len(str) < maxSize THEN str ELSE substr0(str, maxSize))>>
              ELSE <<>>)
             \o filterSize(Tail(array), minSize, maxSize)

(***************************************************************************)
(* The index.  An item of a source is an object [key |-> string]; the      *)
(* keys modelled are plain property names (no dots, no "*").               *)
(***************************************************************************)
\* "[object Object]", what toString gives for an object
ObjectToString == <<91, 111, 98, 106, 101, 99, 116, 32, 79, 98, 106, 101, 99, 116, 93>>

\* _collectValues for a path of one part that leads to a string or to nothing
collectValues(obj, key, list) ==
    IF key \notin DOMAIN obj THEN list ELSE Append(list, obj[key])

RECURSIVE collect_keys(_, _, _, _)
collect_keys(obj, fieldlist, i, list) ==
    IF i > Len(fieldlist) THEN list
    ELSE collect_keys(obj, fieldlist, i + 1, collectValues(obj, fieldlist[i], list))

generateFields(obj, fieldlist) ==
    IF Len(fieldlist) = 0 THEN <<ObjectToString>>
    ELSE collect_keys(obj, fieldlist, 1, <<>>)

Indexed(original, fields) == [kind |-> "Indexed", item |-> original, fields |-> fields]
NoIndexed == [kind |-> "undefined", item |-> <<>>, fields |-> <<>>]

\* the record addSource stores for one item
index_item(item, keys, options) ==
    LET item_fields == generateFields(item, keys)
    IN  Indexed(item,
                [f \in 1 .. Len(item_fields) |->
                    filterSize(split(normalize(item_fields[f]), <<>>),
                               options.token_field_min_length,
                               options.token_field_max_length)])

\* addSource: the index it leaves in self.index.  With overwrite the index
\* is a new array; without, the records are written from position
\* source.length on.
addSource(index, source, keys, overwrite, options) ==
    LET nb_items == Len(source)
        first == IF overwrite THEN 0 ELSE nb_items
        old == IF overwrite THEN [i \in 1 .. nb_items |-> NoIndexed] ELSE index
        len == IF Len(old) > first + nb_items THEN Len(old) ELSE first + nb_items
    IN  [i \in 1 .. len |->
            IF i > first /\ i <= first + nb_items
            THEN index_item(source[i - first], keys, options)
            ELSE IF i <= Len(old) THEN old[i] ELSE NoIndexed]

(***************************************************************************)
(* The query and the score of one field.                                   *)
(***************************************************************************)
Query(normalized, tokens_groups, fused_str, fused_map, single) ==
    [normalized |-> normalized, tokens_groups |-> tokens_groups,
     fused_str |-> fused_str, fused_map |-> fused_map, single |-> single]

\* the Query of the tokens that the size filter kept
query_of(norm_query, tokens, options) ==
    Query(norm_query,
          IF Len(tokens) < 2 THEN <<>> ELSE pack_tokens(tokens),
          substr0(norm_query, IF Len(tokens) < 2 THEN options.token_field_max_length
                              ELSE options.token_fused_max_length),
          IF options.score_test_fused \/ ~options.score_per_token \/ Len(tokens) < 2
          THEN alphabet(substr0(norm_query,
                                IF Len(tokens) < 2 THEN options.token_field_max_length
                                ELSE options.token_fused_max_length))
          ELSE <<>>,
          Len(tokens) < 2)

prepQuery(querystring, options) ==
    query_of(normalize(querystring),
             IF options.score_per_token
             THEN filterSize(split(normalize(querystring), <<>>),
                             options.token_query_min_length, options.token_query_max_length)
             ELSE <<>>,
             options)

\* the scores of one field token against the tokens of a group
group_token_scores(group_info, token, options) ==
    IF Len(group_info.tokens) = 1
    THEN <<score_map(group_info.tokens[1], token, group_info.map, options)>>
    ELSE score_pack(group_info, token, options)

\* if (sc > best_of_field[i]) { best_of_field[i] = sc; best_index[i] = field_tk_index }
group_best(best, scores, field_tk_index) ==
    [score_field |-> [i \in 1 .. Len(best.score_field) |->
                        IF RLt(best.score_field[i], scores[i]) THEN scores[i]
                        ELSE best.score_field[i]],
     field_pos |-> [i \in 1 .. Len(best.score_field) |->
                        IF RLt(best.score_field[i], scores[i]) THEN field_tk_index
                        ELSE best.field_pos[i]]]

\* the loop of _scoreField over the tokens of the field, for one group
RECURSIVE group_scan(_, _, _, _, _)
group_scan(group_info, field_tokens, options, field_tk_index, best) ==
    IF field_tk_index >= Len(field_tokens) THEN best
    ELSE group_scan(group_info, field_tokens, options, field_tk_index + 1,
             group_best(best,
                        group_token_scores(group_info, field_tokens[field_tk_index + 1], options),
                        field_tk_index))

\* the body of the loop that adds the best scores of a group to the field's
\* score; st = [field_score, last_index, score_item], and two records of what
\* the loop did: positions, the best_index of the tokens that scored above
\* minimum_match, in the order of the query, and bonuses, the number of times
\* bonus_order was added
group_add(st, sc, tmp, g, i, options) ==
    [positions |-> IF RLt(options.minimum_match, sc) THEN Append(st.positions, tmp)
                   ELSE st.positions,
     bonuses |-> IF RLt(options.minimum_match, sc) /\ tmp > st.last_index
                 THEN st.bonuses + 1 ELSE st.bonuses,
     field_score |->
        RAdd(RAdd(st.field_score, sc),
             IF RLt(options.minimum_match, sc) /\ tmp > st.last_index
             THEN options.bonus_token_order ELSE RZero),
     last_index |-> IF RLt(options.minimum_match, sc) THEN tmp ELSE st.last_index,
     score_item |-> [st.score_item EXCEPT ![g][i] = IF RLt(@, sc) THEN sc ELSE @]]

RECURSIVE group_sum(_, _, _, _, _)
group_sum(best, g, i, options, st) ==
    IF i > Len(best.score_field) THEN st
    ELSE group_sum(best, g, i + 1, options,
                   group_add(st, best.score_field[i], best.field_pos[i], g, i, options))

\* the loop of _scoreField over the groups of the query
RECURSIVE score_groups(_, _, _, _, _)
score_groups(field_tokens, groups, g, options, st) ==
    IF g > Len(groups) THEN st
    ELSE score_groups(field_tokens, groups, g + 1, options,
             group_sum(group_scan(groups[g], field_tokens, options, 0,
                                  [score_field |-> [i \in 1 .. Len(groups[g].tokens) |-> RZero],
                                   field_pos |-> [i \in 1 .. Len(groups[g].tokens) |-> 0]]),
                       g, 1, options, st))

\* the end of _scoreField and of _scoreFieldSingle: the test of the fused
\* query; acc = [field_score, score_item, fused_score]
fused_test(acc, fused_score) ==
    [field_score |-> IF RLt(acc.field_score, fused_score) THEN fused_score ELSE acc.field_score,
     score_item |-> acc.score_item,
     fused_score |-> IF RLt(acc.fused_score, fused_score) THEN fused_score ELSE acc.fused_score]

with_fused_test(acc, field_tokens, query, options) ==
    IF options.score_test_fused
    THEN fused_test(acc, score_map(query.fused_str, join(field_tokens), query.fused_map, options))
    ELSE acc

\* what _scoreField has when the loop over the groups ends
groups_done(st, acc) ==
    [field_score |-> st.field_score, score_item |-> st.score_item,
     fused_score |-> acc.fused_score]

\* acc = [score_item, fused_score], the accumulators of the item
scoreField(field_tokens, query, options, acc) ==
    with_fused_test(
        groups_done(score_groups(field_tokens, query.tokens_groups, 1, options,
                                 [field_score |-> RZero, last_index |-> -1,
                                  score_item |-> acc.score_item,
                                  positions |-> <<>>, bonuses |-> 0]),
                    acc),
        field_tokens, query, options)

\* the loop of _scoreFieldSingle over the tokens of the field
RECURSIVE single_scan(_, _, _, _, _)
single_scan(field_tokens, query, options, field_tk_index, field_score) ==
    IF field_tk_index >= Len(field_tokens) THEN field_score
    ELSE single_scan(field_tokens, query, options, field_tk_index + 1,
             RMax(field_score,
                  score_map(query.fused_str, field_tokens[field_tk_index + 1],
                            query.fused_map, options)))

scoreFieldSingle(field_tokens, query, options, acc) ==
    with_fused_test(
        [field_score |-> single_scan(field_tokens, query, options, 0, RZero),
         score_item |-> acc.score_item,
         fused_score |-> acc.fused_score],
        field_tokens, query, options)

(***************************************************************************)
(* The search loop.                                                        *)
(***************************************************************************)
RDiv(p, q) == Rat(p.n * q.d, p.d * q.n)

\* Math.round: the nearest integer, halves upwards
MathRound(p) == (2 * p.n + p.d) \div (2 * p.d)

SearchResult(item, fields, item_score, matched_field_index, sortkey) ==
    [item |-> item, fields |-> fields, score |-> item_score,
     matchIndex |-> matched_field_index, sortKey |-> sortkey]

\* the score of one field before the position bonus, with the accumulators
field_score_of(field_tokens, query, options, acc) ==
    IF options.score_per_token
    THEN IF query.single
         THEN scoreFieldSingle(field_tokens, query, options, acc)
         ELSE scoreField(field_tokens, query, options, acc)
    ELSE [field_score |-> score_map(query.fused_str, join(field_tokens),
                                    query.fused_map, options),
          score_item |-> acc.score_item, fused_score |-> acc.fused_score]

\* the rest of the body of the loop over the fields, sc being what the
\* scoring of the field returned; it = [item_score, matched_field_index,
\* position_bonus, score_item, fused_score, stop]
field_done(it, sc, field_index, options) ==
    [item_score |->
        RMax(it.item_score, RMul(sc.field_score, RAdd(RInt(1), it.position_bonus))),
     matched_field_index |->
        IF RLt(it.item_score, RMul(sc.field_score, RAdd(RInt(1), it.position_bonus)))
        THEN field_index ELSE it.matched_field_index,
     position_bonus |-> RMul(it.position_bonus, options.bonus_position_decay),
     score_item |-> sc.score_item,
     fused_score |-> sc.fused_score,
     stop |-> /\ RLt(it.item_score,
                     RMul(sc.field_score, RAdd(RInt(1), it.position_bonus)))
              /\ RLt(options.field_good_enough,
                     RMul(sc.field_score, RAdd(RInt(1), it.position_bonus)))]

\* the loop over the fields of an item
RECURSIVE score_fields(_, _, _, _, _)
score_fields(item_fields, query, options, field_index, it) ==
    IF it.stop \/ field_index >= Len(item_fields) THEN it
    ELSE score_fields(item_fields, query, options, field_index + 1,
             field_done(it,
                        field_score_of(item_fields[field_index + 1], query, options,
                                       [score_item |-> it.score_item,
                                        fused_score |-> it.fused_score]),
                        field_index, options))

\* the sum of the best scores of the query's tokens over the item
RECURSIVE sum_scores(_)
sum_scores(scores) ==
    IF Len(scores) = 0 THEN RZero ELSE RAdd(scores[1], sum_scores(Tail(scores)))

RECURSIVE sum_groups(_)
sum_groups(score_item) ==
    IF Len(score_item) = 0 THEN RZero
    ELSE RAdd(sum_scores(score_item[1]), sum_groups(Tail(score_item)))

\* "different query token match different fields": the score of the item
\* once its fields are scored
mixed_score(it, query, options) ==
    IF options.score_per_token /\ ~query.single
    THEN RAdd(RMul(Rat(1, 2), it.item_score),
              RMul(Rat(1, 2), RMax(sum_groups(it.score_item), it.fused_score)))
    ELSE it.item_score

\* the state of an item's scoring once the loop over its fields ended, its
\* score being the score of the item
scored_item(it, query, options) ==
    [it EXCEPT !.item_score = mixed_score(it, query, options)]

\* the accumulators of a query that was just built: the score_item of every
\* group and the fused_score
new_accumulators(query) ==
    [score_item |-> [g \in 1 .. Len(query.tokens_groups) |->
                        [i \in 1 .. Len(query.tokens_groups[g].tokens) |-> RZero]],
     fused_score |-> RZero]

\* a loop that leaves the accumulators as the last item left them
reset_score_mut(acc) == acc

\* "reset score": scitm[i] = 0 for every group, query.fused_score = 0
reset_score(acc) ==
    [score_item |-> [g \in 1 .. Len(acc.score_item) |->
                        [i \in 1 .. Len(acc.score_item[g]) |-> RZero]],
     fused_score |-> RZero]

\* the first values of the loop over the fields of an item
item_start(acc) ==
    [item_score |-> RZero, matched_field_index |-> -1, position_bonus |-> RInt(1),
     score_item |-> acc.score_item, fused_score |-> acc.fused_score, stop |-> FALSE]

\* the score of an item in the loop of _searchIndex, acc being the
\* accumulators as the item before left them
score_item_from(item_fields, query, options, acc) ==
    scored_item(score_fields(item_fields, query, options, 0, item_start(reset_score(acc))),
                query, options)

\* the score of an item for a query that has scored nothing yet
score_item_of(item_fields, query, options) ==
    scored_item(score_fields(item_fields, query, options, 0,
                             item_start(new_accumulators(query))),
                query, options)

\* a loop that takes the items whose score equals the threshold too
is_candidate_mut(item_score, thresh_include) == RLe(thresh_include, item_score)

\* if (item_score > thresh_include): the item goes to the results
is_candidate(item_score, thresh_include) == RLt(thresh_include, item_score)

\* the end of the body of the loop of _searchIndex, for an item whose
\* scoring left it; st = [thresh_include, best_item_score, results, acc,
\* trace], acc being the accumulators of the query and trace the record, item
\* by item, of the accumulators the item found, of the score it got and of
\* whether a field of it was good enough to stop the scan of its fields
item_done(st, item, it, options) ==
    [acc |-> [score_item |-> it.score_item, fused_score |-> it.fused_score],
     trace |-> Append(st.trace, [before |-> st.acc, item_score |-> it.item_score,
                                 stop |-> it.stop]),
     best_item_score |-> RMax(st.best_item_score, it.item_score),
     thresh_include |->
        IF RLt(st.best_item_score, it.item_score)
        THEN RMax(st.thresh_include, RMul(it.item_score, options.thresh_relative_to_best))
        ELSE st.thresh_include,
     results |->
        IF is_candidate(it.item_score,
                        IF RLt(st.best_item_score, it.item_score)
                        THEN RMax(st.thresh_include,
                                  RMul(it.item_score, options.thresh_relative_to_best))
                        ELSE st.thresh_include)
        THEN Append(st.results,
                    SearchResult(item.item, item.fields,
                                 RMul(RInt(MathRound(RDiv(it.item_score, options.score_round))),
                                      options.score_round),
                                 it.matched_field_index,
                                 join(item.fields[1])))
        ELSE st.results]

RECURSIVE searchIndex(_, _, _, _, _)
searchIndex(query, source, options, item_index, st) ==
    IF item_index >= Len(source) THEN st
    ELSE searchIndex(query, source, options, item_index + 1,
             item_done(st, source[item_index + 1],
                       score_item_from(source[item_index + 1].fields, query, options,
                                       st.acc),
                       options))

\* a filter that keeps everything
filterGTE_mut(array, compareto) == array

RECURSIVE filterGTE(_, _)
filterGTE(array, compareto) ==
    IF Len(array) = 0 THEN <<>>
    ELSE (IF RLe(compareto, array[1].score) THEN <<array[1]>> ELSE <<>>)
         \o filterGTE(Tail(array), compareto)

\* ak < bk for two strings: the order of the code units
RECURSIVE str_lt(_, _)
str_lt(ak, bk) ==
    IF Len(bk) = 0 THEN FALSE
    ELSE IF Len(ak) = 0 THEN TRUE
    ELSE IF ak[1] # bk[1] THEN ak[1] < bk[1]
    ELSE str_lt(Tail(ak), Tail(bk))

\* a comparator that looks at the scores only
compareResults_mut(a, b) ==
    IF RLt(a.score, b.score) THEN 1
    ELSE IF RLt(b.score, a.score) THEN -1
    ELSE 0

\* the sign of what the comparator returns
compareResults(a, b) ==
    IF RLt(a.score, b.score) THEN 1
    ELSE IF RLt(b.score, a.score) THEN -1
    ELSE IF str_lt(b.sortKey, a.sortKey) THEN 1
    ELSE IF str_lt(a.sortKey, b.sortKey) THEN -1
    ELSE 0

\* Array.prototype.sort with the comparator: the arrangements of the array
\* that the comparator accepts.  Elements that compare equal may come out in
\* any order.
sort_outcomes(array) ==
    {[i \in 1 .. Len(array) |-> array[p[i]]] :
        p \in {q \in [1 .. Len(array) -> 1 .. Len(array)] :
                 /\ \A i, j \in 1 .. Len(array) : i # j => q[i] # q[j]
                 /\ \A i, j \in 1 .. Len(array) :
                        i < j => compareResults(array[q[i]], array[q[j]]) <= 0}}

\* the paths of output_map that start with "root.", without it
strip_root(path) ==
    IF path = "root.item" THEN "item"
    ELSE IF path = "root.score" THEN "score"
    ELSE IF path = "root.sortKey" THEN "sortKey"
    ELSE path

\* mapField for a path without inner dots
mapField(source, path, max_out) ==
    LET n == IF max_out > 0 /\ max_out < Len(source) THEN max_out ELSE Len(source)
    IN  IF path = "" \/ path = "root" THEN SubSeq(source, 1, n)
        ELSE [i \in 1 .. n |-> source[i][strip_root(path)]]

\* the list search returns for the sorted results
search_output(results, options) ==
    IF options.output_map # "" \/ options.output_limit > 0
    THEN mapField(results, options.output_map, options.output_limit)
    ELSE results

(***************************************************************************)
(* The engine object.  An array is [id, items]: two arrays are the same    *)
(* object when their ids are equal.  self = [options, source, keys, dirty, *)
(* index, results], options being the scalar settings.                     *)
(***************************************************************************)
\* defaultOptions.source and defaultOptions.keys, two arrays shared by all
DefaultSource == [id |-> 0, items |-> <<>>]
DefaultKeys == [id |-> 0, items |-> <<>>]
\* a property that has no value yet
NoArray == [id |-> -1, items |-> <<>>]

\* the object "new" hands to the constructor
FreshObject ==
    [options |-> defaultOptions, source |-> NoArray, keys |-> NoArray,
     dirty |-> FALSE, index |-> <<>>, results |-> <<>>]

\* options.hasOwnProperty(key) && options[key] !== undefined
has(o, key) == key \in DOMAIN o

\* the value self[key] has after the loop of setOptions
option_value(current, o, key, default, reset) ==
    IF has(o, key) THEN o[key] ELSE IF reset THEN default ELSE current

assign_options(slf, o, reset) ==
    [options |-> [k \in DOMAIN defaultOptions |->
                    option_value(slf.options[k], o, k, defaultOptions[k], reset)],
     source |-> option_value(slf.source, o, "source", DefaultSource, reset),
     keys |-> option_value(slf.keys, o, "keys", DefaultKeys, reset),
     dirty |-> option_value(slf.dirty, o, "dirty", FALSE, reset),
     index |-> option_value(slf.index, o, "index", <<>>, reset),
     results |-> option_value(slf.results, o, "results", <<>>, reset)]

\* FuzzySearch.addSource(self, self.source, self.keys, true); self.dirty = false
reindexed(slf) ==
    [slf EXCEPT !.index = addSource(slf.index, slf.source.items, slf.keys.items,
                                    TRUE, slf.options),
                !.dirty = FALSE]

\* if (self.source !== oSource || self.keys !== oKeys) rebuild
rebuild_if_changed(slf, oSource, oKeys) ==
    IF slf.source.id # oSource.id \/ slf.keys.id # oKeys.id THEN reindexed(slf) ELSE slf

setOptions(slf, o, reset) ==
    rebuild_if_changed(assign_options(slf, o, reset), slf.source, slf.keys)

FuzzySearch(o) == setOptions(FreshObject, o, TRUE)

\* search, up to the query: if (this.dirty) rebuild
search_index(slf) == IF slf.dirty THEN reindexed(slf) ELSE slf

\* the results _searchIndex pushed and the threshold it returned
search_pushed(slf, querystring) ==
    searchIndex(prepQuery(querystring, slf.options), slf.index, slf.options, 0,
                [thresh_include |-> slf.options.thresh_include,
                 best_item_score |-> RZero, results |-> <<>>,
                 acc |-> new_accumulators(prepQuery(querystring, slf.options)),
                 trace |-> <<>>])

\* the lists the sort can leave
search_sorted(pushed, options) ==
    IF options.sorter = "compareResults"
    THEN sort_outcomes(filterGTE(pushed.results, pushed.thresh_include))
    ELSE {filterGTE(pushed.results, pushed.thresh_include)}

(***************************************************************************)
(* Searches.  Each initial state is an engine constructed over one list    *)
(* of items and one query string; the action is the search.                *)
(***************************************************************************)
MaxItems == 2

\* the items: books with a title and, for some, an author
Items ==
    { [title |-> <<97, 98, 98, 97>>, author |-> <<97, 97, 98, 98>>],    \* "abba", "aabb"
      [title |-> <<97, 97, 98, 32, 98, 98, 97>>],    \* "aab bba"
      [title |-> <<65, 98, 97, 98>>] }    \* "Abab"

SourceLists == UNION {[1 .. n -> Items] : n \in 0 .. MaxItems}

\* "ab", "aabb", "aab bba", "Aab  bb" and ""
QueryStrings ==
    { <<97, 98>>, <<97, 97, 98, 98>>, <<97, 97, 98, 32, 98, 98, 97>>,
      <<65, 97, 98, 32, 32, 98, 98>>, <<>> }

TitleKeys == [id |-> 1, items |-> <<"title">>]
TitleAuthorKeys == [id |-> 2, items |-> <<"title", "author">>]

\* the settings given to the constructor besides the source
SearchSettings ==
    { [keys |-> TitleKeys],
      [keys |-> TitleAuthorKeys, output_map |-> "root"],
      [keys |-> TitleAuthorKeys, sorter |-> "null"],
      [keys |-> TitleAuthorKeys, score_test_fused |-> TRUE],
      [keys |-> TitleKeys, score_per_token |-> FALSE],
      [keys |-> TitleKeys, output_limit |-> 1, thresh_include |-> RInt(7)],
      [keys |-> TitleAuthorKeys, thresh_include |-> RZero, field_good_enough |-> RInt(3)] }

SearchCalls ==
    {[setup |-> [source |-> [id |-> 1, items |-> src]] @@ o, querystring |-> q] :
        src \in SourceLists, o \in SearchSettings, q \in QueryStrings}

SearchInit ==
    /\ op = "new"
    /\ args \in SearchCalls
    /\ ret = <<>>
    /\ self = FuzzySearch(args.setup)

\* the return of search for one outcome of the sort; pushed is what
\* _searchIndex left
search_return(pushed, sorted, options) ==
    [pushed |-> pushed.results, thresh_include |-> pushed.thresh_include,
     trace |-> pushed.trace,
     results |-> sorted, out |-> search_output(sorted, options)]

\* search once the index is known to be up to date
search_run(slf, pushed) ==
    \E sorted \in search_sorted(pushed, slf.options) :
        /\ ret' = search_return(pushed, sorted, slf.options)
        /\ self' = [slf EXCEPT !.results = search_output(sorted, slf.options)]

search(slf, querystring) ==
    search_run(search_index(slf), search_pushed(search_index(slf), querystring))

Search ==
    /\ op = "new"
    /\ op' = "search"
    /\ search(self, args.querystring)
    /\ UNCHANGED args

SearchNext == Search

SearchSpec == SearchInit /\ [][SearchNext]_vars

\* the score of the best item of the index for the query, whatever the order
\* of the items
BestItemScore(index, query, options) ==
    LET scores == {score_item_of(index[k].fields, query, options).item_score :
                      k \in 1 .. Len(index)}
    IN  IF scores = {} THEN RZero
        ELSE CHOOSE x \in scores : \A y \in scores : RLe(y, x)

C9_SortedByScoreThenKey ==
    (op = "search" /\ self.options.sorter = "compareResults") =>
        \A i \in 1 .. Len(ret.results) - 1 :
            \/ RLt(ret.results[i + 1].score, ret.results[i].score)
            \/ /\ ret.results[i + 1].score = ret.results[i].score
               /\ ~str_lt(ret.results[i + 1].sortKey, ret.results[i].sortKey)

\* two results of equal score and different sort keys, which the source
\* lists in descending order of sort key, are returned as they are
C9_Witness ==
    /\ op = "search"
    /\ self.options.sorter = "compareResults"
    /\ self.options.output_map = "root"
    /\ Len(ret.out) = 2
    /\ ret.out[1].score = ret.out[2].score
    /\ str_lt(ret.out[1].sortKey, ret.out[2].sortKey)
    /\ ret.pushed = <<ret.out[2], ret.out[1]>>

\* C16: for every source and every thresh_include >= 0, a search with the
\* empty query string returns an empty list.
C16_EmptyQueryNoResults ==
    (op = "search" /\ args.querystring = <<>> /\ RLe(RZero, self.options.thresh_include)) =>
        ret.out = <<>>

\* a search of a source of two items with the empty query and a
\* thresh_include of 0 returned nothing
C16_Witness ==
    /\ op = "search"
    /\ args.querystring = <<>>
    /\ self.options.thresh_include = RZero
    /\ Len(self.index) = 2
    /\ Len(ret.trace) = 2
    /\ ret.out = <<>>

\* C18: an item with a field whose score exceeds field_good_enough (the
\* scan of its fields stopped there) is among the results of the search,
\* whatever thresh_relative_to_best is.
C18_GoodEnoughIsIncluded ==
    op = "search" =>
        \A k \in 1 .. Len(ret.trace) :
            ret.trace[k].stop =>
                \E i \in 1 .. Len(ret.results) : ret.results[i].item = self.index[k].item

\* C11: every item is scored from accumulators that are zero: the score an
\* item gets in the loop of a search is the score it gets from a query that
\* has scored nothing yet, whatever the items before it left behind.
C11_ScoreIndependentOfHistory ==
    op = "search" =>
        \A k \in 1 .. Len(ret.trace) :
            ret.trace[k].item_score =
                score_item_of(self.index[k].fields,
                              prepQuery(args.querystring, self.options),
                              self.options).item_score

\* the second item of a search finds a best token score that the first item
\* left in the accumulators, and gets a smaller score than the first
C11_Witness ==
    /\ op = "search"
    /\ Len(ret.trace) = 2
    /\ \E g \in 1 .. Len(ret.trace[2].before.score_item) :
           \E i \in 1 .. Len(ret.trace[2].before.score_item[g]) :
               RLt(RZero, ret.trace[2].before.score_item[g][i])
    /\ RLt(RZero, ret.trace[2].item_score)
    /\ RLt(ret.trace[2].item_score, ret.trace[1].item_score)

(***************************************************************************)
(* The life of an engine: construction, then setOptions, dirty = true and  *)
(* search in any order.                                                    *)
(***************************************************************************)
\* two arrays of books: "aabb" by "abab" and "aab bba"; "Abab"
Books1 ==
    [id |-> 1,
     items |-> << [title |-> <<97, 97, 98, 98>>, author |-> <<97, 98, 97, 98>>],
                  [title |-> <<97, 97, 98, 32, 98, 98, 97>>] >>]
Books2 == [id |-> 2, items |-> << [title |-> <<65, 98, 97, 98>>] >>]

\* the objects given to the constructor and to setOptions
EngineOptions ==
    { <<>>,
      [source |-> Books1],
      [source |-> Books2],
      [keys |-> TitleKeys],
      [source |-> Books1, keys |-> TitleAuthorKeys],
      [output_limit |-> 1] }

\* "aabb" and "ab"
EngineQueries == { <<97, 97, 98, 98>>, <<97, 98>> }

EngineInit ==
    /\ op = "new"
    /\ args \in {[options |-> o] : o \in EngineOptions}
    /\ ret = <<>>
    /\ self = FuzzySearch(args.options)

SetOptions ==
    \E o \in EngineOptions, reset \in BOOLEAN :
        /\ op' = "setOptions"
        /\ args' = [options |-> o, reset |-> reset]
        /\ ret' = <<>>
        /\ self' = setOptions(self, o, reset)

\* fuzzy.dirty = true
SetDirty ==
    /\ op' = "dirty"
    /\ args' = <<>>
    /\ ret' = <<>>
    /\ self' = [self EXCEPT !.dirty = TRUE]

SearchAgain ==
    \E q \in EngineQueries :
        /\ op' = "search"
        /\ args' = [querystring |-> q]
        /\ search(self, q)

EngineNext == SetOptions \/ SetDirty \/ SearchAgain

EngineSpec == EngineInit /\ [][EngineNext]_vars

\* C10: when a search has run, after construction and any sequence of
\* setOptions (with or without reset), dirty = true and searches, the index
\* it iterated holds one Indexed record per element of the current source,
\* in the order of the source, built with the current keys.
C10_IndexMatchesSource ==
    op = "search" =>
        self.index = addSource(<<>>, self.source.items, self.keys.items, TRUE, self.options)

(***************************************************************************)
(* The interactive search: the function getInteractive returns, and the    *)
(* timer it sets.  self is the closure of getInteractive: the engine       *)
(* (this), wait, mult, burst, timeout, cache, count and suppressed.  ret   *)
(* is the record of what happened: the number of calls made and the log of *)
(* the events (a call, a search, a callback, an expiry of the timer) in    *)
(* the order they happened.                                                *)
(***************************************************************************)
\* var timeout: no timer, or the timer of the call that set it, which runs
\* the later of that call
NoTimer == [set |-> FALSE, call |-> 0, query |-> <<>>]
Timer(call, query) == [set |-> TRUE, call |-> call, query |-> query]

\* var cache: undefined, or the list a search returned
NoCache == [kind |-> "undefined", value |-> <<>>]
Cached(results) == [kind |-> "array", value |-> results]

\* an event of the log: ev is "call", "search", "immediate_cb",
\* "suppress_cb", "finally_cb" or "expire"; call numbers the call whose
\* closure the event belongs to
Event(ev, call, query, value) == [ev |-> ev, call |-> call, query |-> query, value |-> value]

\* what a search can return, with the engine it leaves
search_outcomes_of(slf, pushed) ==
    {[cache |-> search_output(sorted, slf.options),
      this |-> [slf EXCEPT !.results = search_output(sorted, slf.options)]] :
        sorted \in search_sorted(pushed, slf.options)}

search_outcomes(slf, querystring) ==
    search_outcomes_of(search_index(slf), search_pushed(search_index(slf), querystring))

\* the variables of getInteractive
getInteractive(slf) ==
    [this |-> slf,
     wait |-> slf.options.interactive_debounce,
     mult |-> slf.options.interactive_mult,
     burst |-> slf.options.interactive_burst,
     timeout |-> NoTimer, cache |-> NoCache, count |-> 0, suppressed |-> FALSE]

\* a timer that searches at every expiry
later_searches_mut(suppressed) == TRUE

\* if (suppressed)
later_searches(suppressed) == suppressed

\* later: what the function the timer runs leaves, tm being the timer
later(st, log, tm) ==
    IF later_searches(st.suppressed)
    THEN {[st |-> [st EXCEPT !.timeout = NoTimer, !.cache = Cached(o.cache),
                             !.this = o.this, !.count = 0, !.suppressed = FALSE],
           log |-> log \o <<Event("search", tm.call, tm.query, Cached(o.cache)),
                            Event("finally_cb", tm.call, tm.query, Cached(o.cache))>>] :
             o \in search_outcomes(st.this, tm.query)}
    ELSE {[st |-> [st EXCEPT !.timeout = NoTimer, !.count = 0, !.suppressed = FALSE],
           log |-> log]}

\* a burst that lets one more call through
in_burst_mut(count, burst) == count <= burst

\* if (++count < burst), count being the value after the increment
in_burst(count, burst) == count < burst

\* wait = 0.5 * wait + 0.5 * mult * (now - before)
learnt_wait(wait, mult, elapsed) ==
    RAdd(RMul(Rat(1, 2), wait), RMul(RMul(Rat(1, 2), mult), elapsed))

\* the function getInteractive returns when wait is not 0: call number n,
\* of which the search, if it runs, takes the time elapsed
interactive(st, log, n, query, elapsed) ==
    IF in_burst(st.count + 1, st.burst)
    THEN {[st |-> [st EXCEPT !.timeout = Timer(n, query), !.count = st.count + 1,
                             !.suppressed = FALSE, !.cache = Cached(o.cache),
                             !.this = o.this,
                             !.wait = learnt_wait(st.wait, st.mult, elapsed)],
           log |-> log \o <<Event("search", n, query, Cached(o.cache)),
                            Event("immediate_cb", n, query, Cached(o.cache))>>] :
             o \in search_outcomes(st.this, query)}
    ELSE {[st |-> [st EXCEPT !.timeout = Timer(n, query), !.count = st.count + 1,
                             !.suppressed = TRUE],
           log |-> Append(log, Event("suppress_cb", n, query, st.cache))]}

\* the function getInteractive returns when wait is 0
interactive_off(st, log, n, query) ==
    {[st |-> [st EXCEPT !.this = o.this],
      log |-> log \o <<Event("search", n, query, Cached(o.cache)),
                       Event("immediate_cb", n, query, Cached(o.cache))>>] :
        o \in search_outcomes(st.this, query)}

\* the most calls of the interactive function in a behaviour
MaxCalls == 3

\* engines over Books1 with the default burst of 3, a burst of 2, a burst
\* of 1, and with the debounce off
InteractiveSetups ==
    { [source |-> Books1, keys |-> TitleKeys],
      [source |-> Books1, keys |-> TitleKeys, interactive_burst |-> 2],
      [source |-> Books1, keys |-> TitleKeys, interactive_burst |-> 1],
      [source |-> Books1, keys |-> TitleKeys, interactive_debounce |-> RZero] }

\* now - before, the time a search took
Elapsed == { RZero, RInt(100) }

InteractiveInit ==
    /\ op = "getInteractive"
    /\ args \in {[setup |-> c] : c \in InteractiveSetups}
    /\ ret = [calls |-> 0, log |-> <<>>]
    /\ self = getInteractive(FuzzySearch(args.setup))

\* a call of the debounced function
CallInteractive ==
    /\ self.this.options.interactive_debounce # RZero
    /\ ret.calls < MaxCalls
    /\ \E q \in EngineQueries, e \in Elapsed :
        /\ op' = "interactive"
        /\ args' = [query |-> q, elapsed |-> e]
        /\ \E x \in interactive(self,
                                Append(ret.log, Event("call", ret.calls + 1, q, NoCache)),
                                ret.calls + 1, q, e) :
              /\ self' = x.st
              /\ ret' = [calls |-> ret.calls + 1, log |-> x.log]

\* a call of the function returned when the debounce is off
CallImmediate ==
    /\ self.this.options.interactive_debounce = RZero
    /\ ret.calls < MaxCalls
    /\ \E q \in EngineQueries :
        /\ op' = "interactive"
        /\ args' = [query |-> q, elapsed |-> RZero]
        /\ \E x \in interactive_off(self,
                                    Append(ret.log, Event("call", ret.calls + 1, q, NoCache)),
                                    ret.calls + 1, q) :
              /\ self' = x.st
              /\ ret' = [calls |-> ret.calls + 1, log |-> x.log]

\* the timer expires and runs later
Expire ==
    /\ self.timeout.set
    /\ op' = "later"
    /\ args' = [query |-> self.timeout.query, elapsed |-> RZero]
    /\ \E x \in later(self,
                      Append(ret.log, Event("expire", self.timeout.call,
                                            self.timeout.query, NoCache)),
                      self.timeout) :
          /\ self' = x.st
          /\ ret' = [calls |-> ret.calls, log |-> x.log]

InteractiveNext == CallInteractive \/ CallImmediate \/ Expire

InteractiveSpec == InteractiveInit /\ [][InteractiveNext]_vars

\* the position of the last event of kind ev before position p, 0 if none
LastBefore(log, ev, p) ==
    IF \E k \in 1 .. p - 1 : log[k].ev = ev
    THEN CHOOSE k \in 1 .. p - 1 :
            /\ log[k].ev = ev
            /\ \A j \in k + 1 .. p - 1 : log[j].ev # ev
    ELSE 0

\* the number of events of kind ev since the last expiry before p, p included
CountSinceExpiry(log, ev, p) ==
    Cardinality({k \in LastBefore(log, "expire", p) + 1 .. p : log[k].ev = ev})

\* the interactive function of an engine whose debounce is on was called
Debounced == op \in {"interactive", "later"} /\ self.this.options.interactive_debounce # RZero

\* the event at position p, if any, starts something new: a call or an expiry
NothingMoreAt(log, p) == p <= Len(log) => log[p].ev \in {"call", "expire"}

\* C12: at an expiry of the debounce timer, if a call was suppressed since
\* the expiry before, one search runs, with the query of the most recent
\* call, and finally_cb gets its result; if none was suppressed the expiry
\* runs no search and calls nothing.
C12_ExpirySearchesIffSuppressed ==
    Debounced =>
        \A p \in 1 .. Len(ret.log) :
            ret.log[p].ev = "expire" =>
                IF CountSinceExpiry(ret.log, "suppress_cb", p) > 0
                THEN /\ p + 2 <= Len(ret.log)
                     /\ ret.log[p + 1].ev = "search"
                     /\ ret.log[p + 1].query = ret.log[LastBefore(ret.log, "call", p)].query
                     /\ ret.log[p + 2].ev = "finally_cb"
                     /\ ret.log[p + 2].value = ret.log[p + 1].value
                     /\ NothingMoreAt(ret.log, p + 3)
                ELSE NothingMoreAt(ret.log, p + 1)

\* the timer expired after two suppressed calls with different queries and
\* the search ran with the query of the second
C12_Witness ==
    /\ op = "later"
    /\ \E p \in 1 .. Len(ret.log) - 2 :
          /\ ret.log[p].ev = "expire"
          /\ CountSinceExpiry(ret.log, "suppress_cb", p) = 2
          /\ ret.log[p + 1].ev = "search"
          /\ ret.log[p + 2].ev = "finally_cb"
          /\ \E k \in 1 .. p - 1 :
                /\ ret.log[k].ev = "suppress_cb"
                /\ ret.log[k].query # ret.log[p + 1].query

\* C13: of the calls between two expiries of the debounce timer the first
\* interactive_burst - 1 run a search during the call, every later one runs
\* none, and the later ones together get one search, at the expiry.
C13_BurstThenCoalesce ==
    Debounced =>
        \A p \in 1 .. Len(ret.log) :
            /\ ret.log[p].ev = "call" =>
                  IF CountSinceExpiry(ret.log, "call", p) <= self.burst - 1
                  THEN /\ ret.log[p + 1].ev = "search"
                       /\ ret.log[p + 2].ev = "immediate_cb"
                       /\ NothingMoreAt(ret.log, p + 3)
                  ELSE /\ ret.log[p + 1].ev = "suppress_cb"
                       /\ NothingMoreAt(ret.log, p + 2)
            /\ (/\ ret.log[p].ev = "expire"
                /\ CountSinceExpiry(ret.log, "call", p) > self.burst - 1) =>
                  /\ ret.log[p + 1].ev = "search"
                  /\ ret.log[p + 2].ev # "search"
                  /\ NothingMoreAt(ret.log, p + 3)

\* with a burst of 3, two calls searched, a third was suppressed, and the
\* expiry ran the one search
C13_Witness ==
    /\ op = "later"
    /\ self.burst = 3
    /\ Len(ret.log) = 11
    /\ ret.log[2].ev = "search"
    /\ ret.log[5].ev = "search"
    /\ ret.log[8].ev = "suppress_cb"
    /\ ret.log[9].ev = "expire"
    /\ ret.log[10].ev = "search"

\* C14: a suppressed call hands suppress_cb the list the most recent search
\* of the interactive function returned, never a value no search produced.
C14_SuppressGetsLastSearch ==
    Debounced =>
        \A p \in 1 .. Len(ret.log) :
            ret.log[p].ev = "suppress_cb" =>
                /\ LastBefore(ret.log, "search", p) > 0
                /\ ret.log[p].value = ret.log[LastBefore(ret.log, "search", p)].value

(***************************************************************************)
(* Field extraction over any record: generateFields and _collectValues     *)
(* for dotted paths, wildcards, nested objects, arrays and null.  A value  *)
(* of JavaScript is a string, null, an object (its own properties, in      *)
(* order: keys[i] has the value vals[i]) or an array.  A path is the list  *)
(* of its parts, what fieldlist[i].split(".") gives.  The result of an     *)
(* operation is [fault, list] (or [fault, str]): fault when it raises a    *)
(* TypeError.                                                              *)
(***************************************************************************)
JStr(str) == [kind |-> "string", str |-> str, keys |-> <<>>, vals |-> <<>>]
JNull == [kind |-> "null", str |-> <<>>, keys |-> <<>>, vals |-> <<>>]
JObj(keys, vals) == [kind |-> "object", str |-> <<>>, keys |-> keys, vals |-> vals]
JArr(vals) == [kind |-> "array", str |-> <<>>, keys |-> <<>>, vals |-> vals]

\* obj.toString(): a string is itself, an object "[object Object]", an array
\* its elements joined by commas (null as the empty string); null has no
\* toString
RECURSIVE toString(_)
RECURSIVE join_elements(_, _, _)
join_elements(vals, i, acc) ==
    IF i > Len(vals) THEN acc
    ELSE join_elements(vals, i + 1,
             (IF i = 1 THEN acc ELSE Append(acc, 44))
                 \o (IF vals[i].kind = "null" THEN <<>> ELSE toString(vals[i]).str))

toString(obj) ==
    IF obj.kind = "null" THEN [fault |-> TRUE, str |-> <<>>]
    ELSE IF obj.kind = "string" THEN [fault |-> FALSE, str |-> obj.str]
    ELSE IF obj.kind = "object" THEN [fault |-> FALSE, str |-> ObjectToString]
    ELSE [fault |-> FALSE, str |-> join_elements(obj.vals, 1, <<>>)]

\* key in obj, for the keys that are neither an index nor "length": a
\* TypeError when obj is a string or null
key_in(key, obj) ==
    IF obj.kind \in {"string", "null"} THEN [fault |-> TRUE, has |-> FALSE]
    ELSE [fault |-> FALSE, has |-> \E i \in 1 .. Len(obj.keys) : obj.keys[i] = key]

\* obj[key], for a key that is in obj
property(obj, key) == obj.vals[CHOOSE i \in 1 .. Len(obj.keys) : obj.keys[i] = key]

\* the while loop of _collectValues: follow the parts of the path down to
\* its end, to a "*" or "", or to a key that is missing
RECURSIVE walk_path(_, _, _)
walk_path(obj, parts, level) ==
    IF level >= Len(parts) \/ parts[level + 1] \in {"*", ""}
    THEN [fault |-> FALSE, missing |-> FALSE, obj |-> obj, level |-> level]
    ELSE IF key_in(parts[level + 1], obj).fault
    THEN [fault |-> TRUE, missing |-> FALSE, obj |-> obj, level |-> level]
    ELSE IF ~key_in(parts[level + 1], obj).has
    THEN [fault |-> FALSE, missing |-> TRUE, obj |-> obj, level |-> level]
    ELSE walk_path(property(obj, parts[level + 1]), parts, level + 1)

\* list.push(obj.toString())
push_string(acc, obj) ==
    IF acc.fault \/ toString(obj).fault THEN [fault |-> TRUE, list |-> acc.list]
    ELSE [fault |-> FALSE, list |-> Append(acc.list, toString(obj).str)]

\* the loops that push the elements of an array or the properties of an object
RECURSIVE push_strings(_, _, _)
push_strings(vals, i, acc) ==
    IF i > Len(vals) \/ acc.fault THEN acc
    ELSE push_strings(vals, i + 1, push_string(acc, vals[i]))

RECURSIVE _collectValues(_, _, _, _)
RECURSIVE collect_each(_, _, _, _, _)
\* the loops of the "*" branch
collect_each(vals, parts, level, i, acc) ==
    IF i > Len(vals) \/ acc.fault THEN acc
    ELSE collect_each(vals, parts, level, i + 1,
                      _collectValues(vals[i], parts, acc.list, level))

\* what follows the while loop, w being what it left
collect_from(w, parts, list) ==
    IF w.fault THEN [fault |-> TRUE, list |-> list]
    ELSE IF w.missing THEN [fault |-> FALSE, list |-> list]
    ELSE IF w.level = Len(parts)
    THEN IF w.obj.kind \in {"array", "object"}
         THEN push_strings(w.obj.vals, 1, [fault |-> FALSE, list |-> list])
         ELSE push_string([fault |-> FALSE, list |-> list], w.obj)
    ELSE IF parts[w.level + 1] = "*" /\ w.obj.kind \in {"array", "object"}
    THEN collect_each(w.obj.vals, parts, w.level + 1, 1, [fault |-> FALSE, list |-> list])
    ELSE [fault |-> FALSE, list |-> list]

_collectValues(obj, parts, list, level) ==
    collect_from(walk_path(obj, parts, level), parts, list)

\* the loop of generateFields over the paths
RECURSIVE collect_paths(_, _, _, _)
collect_paths(obj, pathlist, i, acc) ==
    IF i > Len(pathlist) \/ acc.fault THEN acc
    ELSE collect_paths(obj, pathlist, i + 1, _collectValues(obj, pathlist[i], acc.list, 0))

\* generateFields for a list of paths
generateFieldsOf(obj, pathlist) ==
    IF Len(pathlist) = 0 THEN push_string([fault |-> FALSE, list |-> <<>>], obj)
    ELSE collect_paths(obj, pathlist, 1, [fault |-> FALSE, list |-> <<>>])

\* the most elements of an array of a record
MaxElems == 2

\* "ab", "" and null
Leaves == { JStr(<<97, 98>>), JStr(<<>>), JNull }

\* the arrays of at most MaxElems values of V
ArraysOf(V) == {JArr(a) : a \in UNION {[1 .. n -> V] : n \in 0 .. MaxElems}}

\* the objects with the keys a and b, b alone, or none
SmallObjects ==
    {JObj(<<>>, <<>>)}
    \cup {JObj(<<"b">>, <<v>>) : v \in Leaves}
    \cup {JObj(<<"a", "b">>, <<v, w>>) : v \in Leaves, w \in Leaves}

\* what the property a of a record holds
InnerValues ==
    Leaves \cup ArraysOf(Leaves) \cup SmallObjects
    \cup ArraysOf({JObj(<<"b">>, <<v>>) : v \in Leaves})

Records ==
    {JObj(<<"a">>, <<v>>) : v \in InnerValues}
    \cup {JObj(<<"a", "b">>, <<v, w>>) : v \in InnerValues, w \in Leaves}

\* the paths a, b, c, a.b, a.*, a., *, a.*.b and a.b.c
Paths ==
    { <<"a">>, <<"b">>, <<"c">>, <<"a", "b">>, <<"a", "*">>, <<"a", "">>, <<"*">>,
      <<"a", "*", "b">>, <<"a", "b", "c">> }

PathLists == {<<>>, <<(<<"b">>), (<<"a">>)>>, <<(<<"c">>), (<<"b">>)>>} \cup {<<p>> : p \in Paths}

FieldCalls == {[fn |-> "generateFields", obj |-> r, pathlist |-> l] : r \in Records, l \in PathLists}

FieldsInit ==
    /\ op = "call"
    /\ args \in FieldCalls
    /\ ret = <<>>
    /\ self = NewEngine

CallGenerateFields ==
    /\ op = "call"
    /\ op' = "generateFields"
    /\ ret' = generateFieldsOf(args.obj, args.pathlist)
    /\ UNCHANGED <<args, self>>

FieldsNext == CallGenerateFields

FieldsSpec == FieldsInit /\ [][FieldsNext]_vars

\* the values a path denotes in a record: none when a key is missing on the
\* way or the way leads through a value that is no object or array
RECURSIVE Denoted(_, _, _)
Denoted(obj, parts, level) ==
    IF level >= Len(parts) THEN {obj}
    ELSE IF parts[level + 1] = "*"
    THEN IF obj.kind \in {"object", "array"}
         THEN UNION {Denoted(obj.vals[i], parts, level + 1) : i \in 1 .. Len(obj.vals)}
         ELSE {}
    ELSE IF obj.kind = "object" /\ (\E i \in 1 .. Len(obj.keys) : obj.keys[i] = parts[level + 1])
    THEN Denoted(property(obj, parts[level + 1]), parts, level + 1)
    ELSE {}

\* C17: generateFields is total: for every record and every dotted path it
\* returns a list and raises no fault, and a path that denotes nothing (a
\* key is missing, or the way leads through a value that is no container)
\* or only null contributes no values.
C17_FieldExtractionTotal ==
    op = "generateFields" =>
        /\ ~ret.fault
        /\ (/\ Len(args.pathlist) = 1
            /\ Denoted(args.obj, args.pathlist[1], 0) \subseteq {JNull}) => ret.list = <<>>

(***************************************************************************)
(* The score of one field: _scoreField for a query of several tokens.      *)
(***************************************************************************)
\* the most tokens of a field
MaxFieldTokens == 3

\* "aab", "bba", "abab"
FieldTokSet == { <<97, 97, 98>>, <<98, 98, 97>>, <<97, 98, 97, 98>> }

FieldTokenLists == UNION {[1 .. n -> FieldTokSet] : n \in 0 .. MaxFieldTokens}

\* "aab bba", "bba aab", "aab aab", "aab zz", "aab bba abab"
FieldQueries ==
    { <<97, 97, 98, 32, 98, 98, 97>>, <<98, 98, 97, 32, 97, 97, 98>>,
      <<97, 97, 98, 32, 97, 97, 98>>, <<97, 97, 98, 32, 122, 122>>,
      <<97, 97, 98, 32, 98, 98, 97, 32, 97, 98, 97, 98>> }

ScoreFieldCalls ==
    {[fn |-> "_scoreField", field_tokens |-> f, querystring |-> q] :
        f \in FieldTokenLists, q \in FieldQueries}

ScoreFieldInit ==
    /\ op = "call"
    /\ args \in ScoreFieldCalls
    /\ ret = <<>>
    /\ self = NewEngine

\* _scoreField up to the end of the loop over the groups, for a query that
\* has scored nothing yet
CallScoreField ==
    /\ op = "call"
    /\ op' = "_scoreField"
    /\ ret' = score_groups(args.field_tokens,
                           prepQuery(args.querystring, self.options).tokens_groups,
                           1, self.options,
                           [field_score |-> RZero, last_index |-> -1,
                            score_item |-> new_accumulators(
                                prepQuery(args.querystring, self.options)).score_item,
                            positions |-> <<>>, bonuses |-> 0])
    /\ UNCHANGED <<args, self>>

ScoreFieldNext == CallScoreField

ScoreFieldSpec == ScoreFieldInit /\ [][ScoreFieldNext]_vars

\* the pairs of consecutive matched query tokens whose best field tokens are
\* in the order of the query
InOrderPairs(positions) ==
    {i \in 1 .. Len(positions) - 1 : positions[i] < positions[i + 1]}

\* C20: bonus_token_order is added once per pair of consecutive matched query
\* tokens whose best-matching field tokens are in the same order in the
\* field, so a field that k query tokens match gets at most k - 1 bonuses.
C20_OrderBonusPerPair ==
    op = "_scoreField" =>
        /\ ret.bonuses = Cardinality(InOrderPairs(ret.positions))
        /\ Len(ret.positions) > 0 => ret.bonuses <= Len(ret.positions) - 1

(***************************************************************************)
(* src/FuzzySearch.js: the search of the variant with max_candidates.  It  *)
(* scores the items of the source one after the other, without an index;   *)
(* self = [options, source, fields].                                       *)
(***************************************************************************)
\* FuzzySearch.score: the longer string gives the bit vector
score_js(a, b, options) ==
    IF Len(b) > Len(a) /\ Len(b) < BVMAXSIZE
    THEN score_map_js(b, a, bitVector_js(b), options.bonus_match_start)
    ELSE score_map_js(a, b, bitVector_js(a), options.bonus_match_start)

\* the tokens after max_search_tokens are lumped into one
lump_tokens(query_tokens, maxtksz) ==
    IF Len(query_tokens) > maxtksz + 1
    THEN Append(SubSeq(query_tokens, 1, maxtksz),
                join(SubSeq(query_tokens, maxtksz + 1, Len(query_tokens))))
    ELSE query_tokens

prepQuery_js(querystring, options) ==
    LET normquery == normalize(querystring)
        query_tokens == lump_tokens(split(normquery, <<>>), options.max_search_tokens)
    IN  [normalized |-> normquery, tokens |-> query_tokens,
         bitvectors |-> [i \in 1 .. Len(query_tokens) |-> bitVector_js(query_tokens[i])],
         tokens_score |-> [i \in 1 .. Len(query_tokens) |-> RZero],
         fused_score |-> RZero]

\* the loop over the tokens of the field for one token of the query;
\* best = [score, pos], tok_index counts from 0
RECURSIVE best_field_token(_, _, _, _, _, _)
best_field_token(query_tk, query_tk_bv, field_tokens, options, tok_index, best) ==
    IF tok_index >= Len(field_tokens) THEN best
    ELSE LET item_tk == field_tokens[tok_index + 1]
             test_score == score_map_js(query_tk, item_tk, query_tk_bv,
                                        options.bonus_match_start)
         IN  best_field_token(query_tk, query_tk_bv, field_tokens, options, tok_index + 1,
                 IF Len(item_tk) > 0 /\ RLt(best.score, test_score)
                 THEN [score |-> test_score, pos |-> tok_index]
                 ELSE best)

\* what one token of the query adds; st = [field_score, last_match_pos,
\* tokens_score]
query_token_done(st, best, query_index, options) ==
    LET matched == RLt(options.minimum_match, best.score)
        ordered == matched /\ best.pos > st.last_match_pos
    IN  [field_score |-> RAdd(st.field_score,
                              IF ordered THEN RAdd(best.score, options.bonus_token_order)
                              ELSE best.score),
         last_match_pos |-> IF matched THEN best.pos ELSE st.last_match_pos,
         tokens_score |-> [st.tokens_score EXCEPT ![query_index] = RMax(@, best.score)]]

RECURSIVE query_tokens_loop(_, _, _, _, _)
query_tokens_loop(query, field_tokens, options, query_index, st) ==
    IF query_index > Len(query.tokens) THEN st
    ELSE query_tokens_loop(query, field_tokens, options, query_index + 1,
             IF Len(query.tokens[query_index]) = 0 THEN st
             ELSE query_token_done(st,
                      best_field_token(query.tokens[query_index],
                                       query.bitvectors[query_index], field_tokens,
                                       options, 0, [score |-> RZero, pos |-> -1]),
                      query_index, options))

\* _scoreField: the score of the field and the query with its best scores
scoreField_js(field, query, options) ==
    LET st == query_tokens_loop(query, split(field, <<>>), options, 1,
                  [field_score |-> RZero, last_match_pos |-> -1,
                   tokens_score |-> query.tokens_score])
        fused_score == score_js(query.normalized, field, options)
    IN  [field_score |-> RMax(st.field_score, fused_score),
         query |-> [query EXCEPT !.tokens_score = st.tokens_score,
                                 !.fused_score = RMax(@, fused_score)]]

\* the fields of an item, from item._fields_ when they are cached
getFields_js(item, fields, options) ==
    IF options.cache_fields /\ "_fields_" \in DOMAIN item THEN item["_fields_"]
    ELSE LET item_fields == generateFields(item, fields)
         IN  [i \in 1 .. Len(item_fields) |-> normalize(item_fields[i])]

\* the item once _getFields has run: with _fields_ when cache_fields is set
cached_item(item, fields, options) ==
    IF options.cache_fields
    THEN [k \in DOMAIN item \cup {"_fields_"} |->
            IF k = "_fields_" THEN getFields_js(item, fields, options) ELSE item[k]]
    ELSE item

\* the loop over the fields of an item; it = [item_score, matched_field_index,
\* position_bonus, query], field_index counts from 0
RECURSIVE fields_loop(_, _, _, _)
fields_loop(item_fields, options, field_index, it) ==
    IF field_index >= Len(item_fields) THEN it
    ELSE LET sf == scoreField_js(item_fields[field_index + 1], it.query, options)
             field_score == RMul(sf.field_score, RAdd(RInt(1), it.position_bonus))
             decayed == RMul(it.position_bonus, options.bonus_position_decay)
         IN  IF RLt(it.item_score, field_score)
             THEN IF RLt(options.field_good_enough, field_score)
                  THEN [item_score |-> field_score, matched_field_index |-> field_index,
                        position_bonus |-> decayed, query |-> sf.query]
                  ELSE fields_loop(item_fields, options, field_index + 1,
                           [item_score |-> field_score,
                            matched_field_index |-> field_index,
                            position_bonus |-> decayed, query |-> sf.query])
             ELSE fields_loop(item_fields, options, field_index + 1,
                      [it EXCEPT !.position_bonus = decayed, !.query = sf.query])

\* 0.5 * item_score + 0.5 * query_score
mixed_score_js(it) ==
    RAdd(RMul(Rat(1, 2), it.item_score),
         RMul(Rat(1, 2), RMax(it.query.fused_score, sum_scores(it.query.tokens_score))))

\* _prepResult
prepResult_js(item, fields, item_score, matched_field_index, options) ==
    LET f == generateFields(item, fields)
    IN  [score |-> RMul(RInt(MathRound(RDiv(item_score, options.score_round))),
                        options.score_round),
         item |-> item, matchIndex |-> matched_field_index,
         match |-> IF options.output_match_detail /\ matched_field_index + 1 \in DOMAIN f
                   THEN f[matched_field_index + 1] ELSE <<>>,
         alphaSortKey |-> IF options.output_match_detail
                          THEN (IF Len(f) > 0 THEN f[1] ELSE <<>>)
                          \* getField for a plain key
                          ELSE (IF fields[1] \in DOMAIN item THEN item[fields[1]]
                                ELSE <<>>)]

\* _filterField(results, "score", minval)
filterField(array, minval) == filterGTE(array, minval)

\* one turn of the loop over the source after the item is scored; st =
\* [thresh_include, best_item_score, results, need_bestscore_cleanup, stop,
\* examined], examined recording for each item looked at the results and the
\* threshold the turn left
source_item_done(st, item, it, fields, options, max_candidates) ==
    LET item_score == mixed_score_js(it)
        better == RLt(st.best_item_score, item_score)
        thresh == IF better
                  THEN RMax(st.thresh_include,
                            RMul(item_score, options.thresh_relative_to_best))
                  ELSE st.thresh_include
        need == better \/ st.need_bestscore_cleanup
        pushed == IF RLt(thresh, item_score)
                  THEN Append(st.results,
                              prepResult_js(item, fields, item_score,
                                            it.matched_field_index, options))
                  ELSE st.results
        full == Len(pushed) >= max_candidates
        results == IF full /\ need THEN filterField(pushed, thresh) ELSE pushed
    IN  [thresh_include |-> thresh,
         best_item_score |-> IF better THEN item_score ELSE st.best_item_score,
         results |-> results,
         need_bestscore_cleanup |-> need /\ ~full,
         stop |-> full /\ ~need,
         examined |-> Append(st.examined,
                             [results |-> results, thresh_include |-> thresh])]

\* the loop over the source; source_index counts from 0
RECURSIVE source_loop(_, _, _, _, _, _)
source_loop(source, fields, query, options, source_index, st) ==
    IF source_index >= Len(source) \/ st.stop THEN st
    ELSE source_loop(source, fields, query, options, source_index + 1,
             source_item_done(st, cached_item(source[source_index + 1], fields, options),
                 fields_loop(getFields_js(source[source_index + 1], fields, options),
                             options, 0,
                             [item_score |-> RZero, matched_field_index |-> -1,
                              position_bonus |-> RInt(1), query |-> query]),
                 fields, options, options.max_candidates))

\* the source after the search: the items looked at hold their fields
source_after(source, fields, options, n) ==
    [i \in 1 .. Len(source) |->
        IF i <= n THEN cached_item(source[i], fields, options) ELSE source[i]]

\* a.alphaSortKey.localeCompare(b.alphaSortKey), for keys that differ by more
\* than the case of their letters: the order of the letters whatever their case
localeCompare(ak, bk) ==
    LET al == [i \in 1 .. Len(ak) |-> toLowerCase(ak[i])]
        bl == [i \in 1 .. Len(bk) |-> toLowerCase(bk[i])]
    IN  IF str_lt(al, bl) THEN -1 ELSE IF str_lt(bl, al) THEN 1 ELSE 0

\* the sign of the comparator of the sort
compare_js(a, b) ==
    IF RLt(a.score, b.score) THEN 1
    ELSE IF RLt(b.score, a.score) THEN -1
    ELSE localeCompare(a.alphaSortKey, b.alphaSortKey)

\* results.sort(...): the arrangements the comparator accepts
sort_outcomes_js(array) ==
    {[i \in 1 .. Len(array) |-> array[p[i]]] :
        p \in {q \in [1 .. Len(array) -> 1 .. Len(array)] :
                 /\ \A i, j \in 1 .. Len(array) : i # j => q[i] # q[j]
                 /\ \A i, j \in 1 .. Len(array) :
                        i < j => compare_js(array[q[i]], array[q[j]]) <= 0}}

\* the results when the loop has ended
source_loop_done(st) ==
    IF st.need_bestscore_cleanup THEN filterField(st.results, st.thresh_include)
    ELSE st.results

search_js_loop(slf, querystring) ==
    source_loop(slf.source, slf.fields, prepQuery_js(querystring, slf.options),
                slf.options, 0,
                [thresh_include |-> slf.options.thresh_include,
                 best_item_score |-> RZero, results |-> <<>>,
                 need_bestscore_cleanup |-> FALSE, stop |-> FALSE, examined |-> <<>>])

search_js_return(slf, st, sorted) ==
    /\ ret' = [examined |-> st.examined,
               out |-> IF slf.options.output_match_detail THEN sorted
                       ELSE [i \in 1 .. Len(sorted) |-> sorted[i].item]]
    /\ self' = [slf EXCEPT !.source = source_after(slf.source, slf.fields, slf.options,
                                                   Len(st.examined))]

search_js(slf, querystring) ==
    \E sorted \in sort_outcomes_js(source_loop_done(search_js_loop(slf, querystring))) :
        search_js_return(slf, search_js_loop(slf, querystring), sorted)

\* new FuzzySearch(options)
FuzzySearch_js(options) ==
    [options |-> [k \in DOMAIN defaults_js |->
                    IF k \in DOMAIN options THEN options[k] ELSE defaults_js[k]],
     source |-> options.source, fields |-> options.keys]

\* the settings given to the constructor besides the source and the keys
OldSettings ==
    { [max_candidates |-> 1], [max_candidates |-> 2],
      [thresh_include |-> RInt(7)] }

OldSearchCalls ==
    {[setup |-> [source |-> src, keys |-> <<"title", "author">>] @@ o, querystring |-> q] :
        src \in SourceLists, o \in OldSettings, q \in QueryStrings}

OldSearchInit ==
    /\ op = "new"
    /\ args \in OldSearchCalls
    /\ ret = <<>>
    /\ self = FuzzySearch_js(args.setup)

OldSearch ==
    /\ op = "new"
    /\ op' = "search"
    /\ search_js(self, args.querystring)
    /\ UNCHANGED args

OldSearchNext == OldSearch

OldSearchSpec == OldSearchInit /\ [][OldSearchNext]_vars

\* the candidates of a list that satisfy a threshold
Satisfying(results, thresh) == {i \in 1 .. Len(results) : RLe(thresh, results[i].score)}

\* C19: once max_candidates candidates that satisfy the current inclusion
\* threshold have been collected no further item of the source is examined,
\* and the list returned has at most max_candidates entries.
C19_StopsAtMaxCandidates ==
    op = "search" =>
        /\ \A k \in 1 .. Len(ret.examined) - 1 :
              Cardinality(Satisfying(ret.examined[k].results,
                                     ret.examined[k].thresh_include))
                  < self.options.max_candidates
        /\ Len(ret.out) <= self.options.max_candidates

(***************************************************************************)
(* pack_tokens over tokens of every size: short ones, ones that overflow   *)
(* a group, and ones of INT_SIZE characters or more.                       *)
(***************************************************************************)
\* the most tokens of a list
MaxPackTokens == 3

\* the token of l characters "abcabc..."
LongToken(l) == [i \in 1 .. l |-> 97 + ((i - 1) % 3)]

\* the lengths of the tokens
PackLengths == {0, 1, 15, 16, 31, 32, 33}

PackLists(L) == UNION {[1 .. n -> {LongToken(l) : l \in L}] : n \in 0 .. MaxPackTokens}

PackInit ==
    /\ op = "call"
    /\ args \in {[fn |-> "pack_tokens", tokens |-> t] : t \in PackLists(PackLengths)}
    /\ ret = <<>>
    /\ self = NewEngine

CallPackTokens ==
    /\ op = "call"
    /\ op' = "pack_tokens"
    /\ ret' = pack_tokens(args.tokens)
    /\ UNCHANGED <<args, self>>

PackNext == CallPackTokens

PackSpec == PackInit /\ [][PackNext]_vars

\* the groups of pack_tokens that hold a bit vector: all but those made of
\* one token of INT_SIZE characters or more
BitGroups(groups) ==
    {g \in 1 .. Len(groups) :
        ~(Len(groups[g].tokens) = 1 /\ Len(groups[g].tokens[1]) >= INT_SIZE)}

\* the sum of the lengths of the first i tokens
RECURSIVE LengthSum(_, _)
LengthSum(tokens, i) == IF i = 0 THEN 0 ELSE LengthSum(tokens, i - 1) + Len(tokens[i])

\* the bits of the lanes of a group where the character c stands
LaneBits(tokens, c) ==
    {LengthSum(tokens, i - 1) + j - 1 :
        <<i, j>> \in {p \in (1 .. Len(tokens)) \X (1 .. 31) :
                        p[2] <= Len(tokens[p[1]]) /\ tokens[p[1]][p[2]] = c}}

\* C25: in every bit-vector group of pack_tokens token i has the bits from
\* the sum of the lengths of the tokens before it up to its own length more,
\* every bit of the map lies in one of these lanes, and the lengths of the
\* tokens of the group add up to 31 at most.
C25_LanesDisjointAndFit ==
    op = "pack_tokens" =>
        \A g \in BitGroups(ret) :
            /\ LengthSum(ret[g].tokens, Len(ret[g].tokens)) <= 31
            /\ \A c \in DOMAIN ret[g].map : ret[g].map[c] = LaneBits(ret[g].tokens, c)
            /\ \A i \in 1 .. Len(ret[g].tokens) : \A j \in 1 .. Len(ret[g].tokens[i]) :
                   ret[g].tokens[i][j] \in DOMAIN ret[g].map

\* two tokens of 15 and 16 characters share a group that is full, and the
\* third token starts the next one
C25_Witness ==
    /\ op = "pack_tokens"
    /\ args.tokens = <<LongToken(15), LongToken(16), LongToken(1)>>
    /\ Len(ret) = 2
    /\ Len(ret[1].tokens) = 2
    /\ LengthSum(ret[1].tokens, 2) = 31
    /\ 30 \in ret[1].map[97]

\* the tokens of the groups, one group after the other
RECURSIVE GroupTokens(_)
GroupTokens(groups) ==
    IF Len(groups) = 0 THEN <<>> ELSE groups[1].tokens \o GroupTokens(Tail(groups))

\* C27: pack_tokens loses and duplicates no token: the tokens of the groups
\* it returns, in the order of the groups, are the tokens it was given.
C27_PackKeepsTokens ==
    op = "pack_tokens" => GroupTokens(ret) = args.tokens

\* a token that overflows the group of the first, then a token of INT_SIZE
\* characters
C27_Witness ==
    /\ op = "pack_tokens"
    /\ args.tokens = <<LongToken(16), LongToken(16), LongToken(32)>>
    /\ Len(ret) = 3
    /\ GroupTokens(ret) = args.tokens

(***************************************************************************)
(* The choice of branch in score_map against the kind of map it is given.  *)
(* _scoreField gives the map of a group of pack_tokens that holds a single *)
(* token, _scoreFieldSingle the map alphabet made of the query.            *)
(***************************************************************************)
\* the token of l characters that starts s letters further: "bcabca..."
ShiftToken(l, s) == [i \in 1 .. l |-> 97 + ((i - 1 + s) % 3)]

\* the lengths around INT_SIZE
DispatchLengths == {30, 31, 32, 33, 34}

DispatchCalls ==
    {[fn |-> "score_map", from |-> f, a |-> ShiftToken(la, sa), b |-> ShiftToken(lb, sb)] :
        f \in {"alphabet", "pack_tokens"}, la \in DispatchLengths, sa \in {0, 1},
        lb \in DispatchLengths, sb \in {0, 1, 2}}

DispatchInit ==
    /\ op = "call"
    /\ args \in DispatchCalls
    /\ ret = <<>>
    /\ self = NewEngine

\* whether the map made of the token is a position vector
map_is_posVector(from, token) ==
    IF from = "alphabet" THEN use_posVector(Len(token)) ELSE large_token(Len(token))

\* the map made of the token
map_from(from, token) ==
    IF from = "alphabet" THEN alphabet(token) ELSE pack_tokens(<<token>>)[1].map

\* score_map with the map of either kind.  On the bit-parallel branch the
\* arrays of a position vector turn into NaN and then 0 under &, so that U
\* is 0, S keeps no zero bit and lcs_len is the prefix.
score_map_given(a, b, from, options) ==
    IF score_map_path(a, b, options) = "bits" /\ map_is_posVector(from, a)
    THEN score_value(Len(a), Len(b), prefix_loop(a, b, 0, Min(Len(a), Len(b))),
                     prefix_loop(a, b, 0, Min(Len(a), Len(b))), options.bonus_match_start)
    ELSE score_map(a, b, map_from(from, a), options)

CallScoreMapGiven ==
    /\ op = "call"
    /\ op' = "score_map"
    /\ ret' = [posvector |-> map_is_posVector(args.from, args.a),
               path |-> score_map_path(args.a, args.b, self.options),
               score |-> score_map_given(args.a, args.b, args.from, self.options)]
    /\ UNCHANGED <<args, self>>

DispatchNext == CallScoreMapGiven

DispatchSpec == DispatchInit /\ [][DispatchNext]_vars

\* C24: the test of score_map for long tokens is in sync with the making of
\* the maps: on the bit-parallel branch the map is a bit vector, and with a
\* position vector score_map takes the llcs_large branch.
C24_DispatchInSync ==
    (op = "score_map" /\ ret.path \in {"bits", "large"})
        => (ret.path = "large" <=> ret.posvector)

(***************************************************************************)
(* _prepQuery over short query strings.                                    *)
(***************************************************************************)
\* the most characters of a query string
MaxQueryLen == 4

\* a, b and the space
QueryChars == {97, 98, 32}

QueryInputs == UNION {[1 .. n -> QueryChars] : n \in 0 .. MaxQueryLen}

PrepQueryInit ==
    /\ op = "call"
    /\ args \in {[fn |-> "_prepQuery", querystring |-> q] : q \in QueryInputs}
    /\ ret = <<>>
    /\ self = NewEngine

CallPrepQuery ==
    /\ op = "call"
    /\ op' = "_prepQuery"
    /\ ret' = prepQuery(args.querystring, self.options)
    /\ UNCHANGED <<args, self>>

PrepQueryNext == CallPrepQuery

PrepQuerySpec == PrepQueryInit /\ [][PrepQueryNext]_vars

\* the tokens of the query that the length filter keeps
KeptTokens(querystring, options) ==
    filterSize(split(normalize(querystring), <<>>),
               options.token_query_min_length, options.token_query_max_length)

\* C26: when the length filter leaves a single token of the query, the
\* string scored against the field tokens, fused_str, is that token.
C26_SingleTokenIsFused ==
    (op = "_prepQuery" /\ Len(KeptTokens(args.querystring, self.options)) = 1)
        => /\ ret.single
           /\ ret.fused_str = KeptTokens(args.querystring, self.options)[1]

(***************************************************************************)
(* FuzzySearch.addSource called on an engine that holds an index.          *)
(***************************************************************************)
AddSourceCalls ==
    {[fn |-> "addSource",
      setup |-> [source |-> [id |-> 1, items |-> src], keys |-> TitleAuthorKeys],
      source |-> added, overwrite |-> w] :
        src \in SourceLists, added \in SourceLists, w \in BOOLEAN}

AddSourceInit ==
    /\ op = "new"
    /\ args \in AddSourceCalls
    /\ ret = <<>>
    /\ self = FuzzySearch(args.setup)

\* FuzzySearch.addSource(self, source, self.keys, overwrite); ret keeps the
\* index of before the call
CallAddSource ==
    /\ op = "new"
    /\ op' = "addSource"
    /\ ret' = [before |-> self.index]
    /\ self' = [self EXCEPT !.index = addSource(self.index, args.source,
                                                self.keys.items, args.overwrite,
                                                self.options)]
    /\ UNCHANGED args

AddSourceNext == CallAddSource

AddSourceSpec == AddSourceInit /\ [][AddSourceNext]_vars

\* C22: addSource with overwrite = false adds data: the index holds every
\* record it held before, unchanged and at the same position, followed by
\* one new record per element of the added source.
C22_AddSourceAppends ==
    (op = "addSource" /\ ~args.overwrite) =>
        /\ Len(self.index) = Len(ret.before) + Len(args.source)
        /\ \A i \in 1 .. Len(ret.before) : self.index[i] = ret.before[i]
        /\ \A j \in 1 .. Len(args.source) :
               /\ Len(ret.before) + j \in DOMAIN self.index
               /\ self.index[Len(ret.before) + j]
                      = index_item(args.source[j], self.keys.items, self.options)

(***************************************************************************)
(* The search against the order of the source.                             *)
(***************************************************************************)
\* books whose scores for a query are in the ratio of the threshold:
\* "aaaa", "abaaa", "abab", "bbbb"
OrderItems ==
    { [title |-> <<97, 97, 97, 97>>], [title |-> <<97, 98, 97, 97, 97>>],
      [title |-> <<97, 98, 97, 98>>], [title |-> <<98, 98, 98, 98>>] }

\* "abbab", "ab", "abab"
OrderQueries == { <<97, 98, 98, 97, 98>>, <<97, 98>>, <<97, 98, 97, 98>> }

OrderCalls ==
    {[setup |-> [source |-> [id |-> 1, items |-> src], keys |-> TitleKeys],
      querystring |-> q] :
        src \in UNION {[1 .. n -> OrderItems] : n \in 0 .. 2}, q \in OrderQueries}

OrderInit ==
    /\ op = "new"
    /\ args \in OrderCalls
    /\ ret = <<>>
    /\ self = FuzzySearch(args.setup)

OrderNext == Search

OrderSpec == OrderInit /\ [][OrderNext]_vars

\* the arrangements of a list
Arrangements(list) ==
    {[i \in 1 .. Len(list) |-> list[p[i]]] :
        p \in {q \in [1 .. Len(list) -> 1 .. Len(list)] :
                 \A i, j \in 1 .. Len(list) : i # j => q[i] # q[j]}}

\* the items search returns for the engine, before the sort and the output map
ReturnedItems(slf, querystring) ==
    LET pushed == search_pushed(search_index(slf), querystring)
        kept == filterGTE(pushed.results, pushed.thresh_include)
    IN  {kept[i].item : i \in 1 .. Len(kept)}

\* C28: the set of items search returns does not depend on the order of the
\* items in the source: every arrangement of the source gives the same items
\* for the same query and options.
C28_OrderIndependent ==
    op = "search" =>
        \A src \in Arrangements(args.setup.source.items) :
            ReturnedItems(FuzzySearch([args.setup EXCEPT !.source.items = src]),
                          args.querystring)
                = {ret.results[i].item : i \in 1 .. Len(ret.results)}

(***************************************************************************)
(* src/FuzzySearch.js: align, the local alignment of a query token a with  *)
(* a field token b that gives the ranges of b to highlight.  The scores    *)
(* are counted in hundredths: wm = 1.0, wo = -0.1, we = -0.01.  A range is *)
(* [start, end) in the positions of b, from 0.                             *)
(***************************************************************************)
wm == 100
wo == -10
we == -1

Max(x, y) == IF x >= y THEN x ELSE y

\* the traceback directions
STOP == 0
UP == 1
LEFT == 2
DIAGONAL == 3

\* switch (v): what triggered the best score
direction(v, align, gapA, gapB) ==
    IF v = align THEN DIAGONAL
    ELSE IF v = gapB THEN LEFT
    ELSE IF v = gapA THEN UP
    ELSE STOP

\* the loop over j of one row i; prev is the row above, [vrow, gapArow]; st =
\* [vrow, gapArow, tb, gapB, vmax, imax, jmax], the rows being filled from
\* column 0 on.  A character that does not match gives align = -Infinity.
RECURSIVE align_row(_, _, _, _, _, _, _)
align_row(a, b, n, i, j, prev, st) ==
    IF j >= n THEN st
    ELSE LET gapA == Max(prev.gapArow[j + 1] + we, prev.vrow[j + 1] + wo)
             gapB == Max(st.gapB + we, st.vrow[j] + wo)
             align == IF a[i] = b[j] THEN prev.vrow[j] + wm ELSE -Infinity
             v == Max(Max(align, gapA), Max(gapB, 0))
             better == v = align /\ v > st.vmax
         IN  align_row(a, b, n, i, j + 1, prev,
                 [vrow |-> Append(st.vrow, v), gapArow |-> Append(st.gapArow, gapA),
                  tb |-> Append(st.tb, direction(v, align, gapA, gapB)),
                  gapB |-> gapB,
                  vmax |-> IF better THEN v ELSE st.vmax,
                  imax |-> IF better THEN i ELSE st.imax,
                  jmax |-> IF better THEN j ELSE st.jmax])

\* the loop over i; st = [vrow, gapArow, traceback, vmax, imax, jmax], traceback
\* being the rows of directions so far
RECURSIVE align_rows(_, _, _, _, _, _)
align_rows(a, b, m, n, i, st) ==
    IF i >= m THEN st
    ELSE LET row == align_row(a, b, n, i, 1, [vrow |-> st.vrow, gapArow |-> st.gapArow],
                              [vrow |-> <<st.vrow[1]>>, gapArow |-> <<st.gapArow[1]>>,
                               tb |-> <<STOP>>, gapB |-> 0,
                               vmax |-> st.vmax, imax |-> st.imax, jmax |-> st.jmax])
         IN  align_rows(a, b, m, n, i + 1,
                 [vrow |-> row.vrow, gapArow |-> row.gapArow,
                  traceback |-> Append(st.traceback, row.tb),
                  vmax |-> row.vmax, imax |-> row.imax, jmax |-> row.jmax])

\* the table of directions and the best cell; m, n = length + 1
align_table(a, b, m, n) ==
    IF m > 1 /\ n > 1
    THEN align_rows(a, b, m, n, 1,
             [vrow |-> [j \in 1 .. n |-> 0], gapArow |-> [j \in 1 .. n |-> 0],
              traceback |-> <<[j \in 1 .. n |-> STOP]>>,
              vmax |-> 0, imax |-> 0, jmax |-> 0])
    ELSE [vrow |-> <<>>, gapArow |-> <<>>, traceback |-> <<>>,
          vmax |-> 0, imax |-> 0, jmax |-> 0]

\* a test that never bridges a gap
gap_opens_mut(last_match, j, bridge) == last_match - j > 0

\* if (last_match - j > bridge): the gap that was traversed ends a range
gap_opens(last_match, j, bridge) == last_match - j > bridge

\* the loop of the traceback; st = [seq_start, seq_end, last_match]
RECURSIVE backtrack(_, _, _, _, _, _)
backtrack(traceback, i, j, bridge, prefixlen, st) ==
    IF traceback[i + 1][j + 1] = UP
    THEN backtrack(traceback, i - 1, j, bridge, prefixlen, st)
    ELSE IF traceback[i + 1][j + 1] = LEFT
    THEN backtrack(traceback, i, j - 1, bridge, prefixlen, st)
    ELSE IF traceback[i + 1][j + 1] = DIAGONAL
    THEN backtrack(traceback, i - 1, j - 1, bridge, prefixlen,
             IF gap_opens(st.last_match, j, bridge)
             THEN [seq_start |-> Append(st.seq_start, st.last_match + prefixlen),
                   seq_end |-> Append(st.seq_end, j + prefixlen),
                   last_match |-> j - 1]
             ELSE [st EXCEPT !.last_match = j - 1])
    ELSE [st EXCEPT !.seq_start = Append(@, st.last_match + prefixlen)]

\* the ranges after the traceback
traced(t, bridge, prefixlen) ==
    IF t.vmax > 0
    THEN backtrack(t.traceback, t.imax, t.jmax, bridge, prefixlen,
                   [seq_start |-> <<>>, seq_end |-> <<t.jmax + prefixlen>>,
                    last_match |-> t.jmax])
    ELSE [seq_start |-> <<>>, seq_end |-> <<>>, last_match |-> 0]

\* if (prefixlen): bridge the last match to the prefix, or add the prefix
with_prefix(st, bridge, prefixlen) ==
    IF prefixlen = 0 THEN st
    ELSE IF st.last_match > 0 /\ st.last_match <= bridge
    THEN [st EXCEPT !.seq_start[Len(st.seq_start)] = 0]
    ELSE [st EXCEPT !.seq_start = Append(@, 0), !.seq_end = Append(@, prefixlen)]

reverse(array) == [i \in 1 .. Len(array) |-> array[Len(array) + 1 - i]]

\* for (i = 0; i < k && (a[i] === b[i]); i++) prefixlen++; a character past
\* the end of a string is undefined and equals no character
RECURSIVE common_prefix(_, _, _, _)
common_prefix(a, b, i, k) ==
    IF i < k /\ i + 1 <= Len(a) /\ i + 1 <= Len(b) /\ a[i + 1] = b[i + 1]
    THEN common_prefix(a, b, i + 1, k)
    ELSE i

\* prefixlen: m for equal strings, the common prefix under highlight_prefix
align_prefix(a, b, m, n, options) ==
    IF a = b THEN m
    ELSE IF options.highlight_prefix THEN common_prefix(a, b, 0, Min(m, n))
    ELSE 0

\* align: the score in hundredths and the ranges it pushed on empty arrays
align(a, b, options) ==
    LET m0 == Min(Len(a) + 1, options.highlight_tk_max_size)
        n0 == Min(Len(b) + 1, options.highlight_tk_max_size)
        prefixlen == align_prefix(a, b, m0, n0, options)
        cut == IF a = b THEN 0 ELSE prefixlen
        t == align_table(SubSeq(a, cut + 1, Len(a)), SubSeq(b, cut + 1, Len(b)),
                         IF a = b THEN 0 ELSE m0 - cut, n0 - cut)
        st == with_prefix(traced(t, options.highlight_bridge_gap, prefixlen),
                          options.highlight_bridge_gap, prefixlen)
    IN  [score |-> t.vmax + wm * prefixlen,
         seq_start |-> reverse(st.seq_start), seq_end |-> reverse(st.seq_end)]

\* the most characters of the tokens that are aligned
MaxAlignLen == 4

AlignStrings(len) == UNION {[1 .. k -> {97, 98}] : k \in 0 .. len}

AlignInit ==
    /\ op = "call"
    /\ args \in {[fn |-> "align", a |-> a, b |-> b, highlight_prefix |-> p,
                  highlight_bridge_gap |-> g] :
                    a \in AlignStrings(MaxAlignLen), b \in AlignStrings(MaxAlignLen + 1),
                    p \in BOOLEAN, g \in {0, 1, 2}}
    /\ ret = <<>>
    /\ self = NewEngine

CallAlign ==
    /\ op = "call"
    /\ op' = "align"
    /\ ret' = align(args.a, args.b,
                    [defaults_js EXCEPT !.highlight_prefix = args.highlight_prefix,
                                        !.highlight_bridge_gap = args.highlight_bridge_gap])
    /\ UNCHANGED <<args, self>>

AlignNext == CallAlign

AlignSpec == AlignInit /\ [][AlignNext]_vars

\* C21: in the ranges align gives, a gap of at most highlight_bridge_gap
\* characters is bridged: two consecutive ranges are separated by more than
\* highlight_bridge_gap characters of b, the range of the common prefix
\* included.
C21_GapsAreBridged ==
    op = "align" =>
        /\ Len(ret.seq_start) = Len(ret.seq_end)
        /\ \A k \in 1 .. Len(ret.seq_start) - 1 :
               ret.seq_start[k + 1] - ret.seq_end[k] > args.highlight_bridge_gap

====
